---- MODULE Spec2Model ----
(***************************************************************************)
(* cloud-detect: the detection orchestrator (async `detect` of src/lib.rs  *)
(* and blocking `detect` of src/blocking/mod.rs), the provider registry    *)
(* and the probe tasks a run launches.                                     *)
(*                                                                         *)
(* One behaviour analyses one of the two APIs (variable api); the two APIs *)
(* own disjoint statics (two PROVIDERS registries, two mutexes).           *)
(* A poll of `tokio::select! { biased; .. }` and one iteration of          *)
(* `recv_timeout` are single steps of the orchestrator: they look at the   *)
(* channel first, then at the other events.                                *)
(***************************************************************************)
EXTENDS FiniteSets, Integers, Sequences, TLC

\* ---------------------------------------------------------------- bounds
MaxRuns == 2        \* detect calls per behaviour
NumProbes == 2      \* probes of the registry a run fans out to
MaxTimeout == 1     \* largest explicit timeout argument (seconds)

\* ------------------------------------------------------------- constants
Unknown == "unknown"
\* Option<u64>: None is the empty sequence, Some(n) is <<n>>
None == <<>>
Some(n) == <<n>>
DEFAULT_DETECTION_TIMEOUT == 5
\* consts.rs: a second timeout constant, referred to by no code
DETECTION_TIMEOUT == 3
ChannelCapacity == 1

\* guard value of a poisoned std::sync::Mutex (blocking API only)
Poisoned == 0 - 1
\* Result::Err of anyhow!(msg)
Err(msg) == <<"Err", msg>>
LockErr == "Error locking providers"

\* the provider modules of the crate (providers/mod.rs)
ProviderModules ==
    {"akamai", "alibaba", "aws", "azure", "digitalocean", "gcp", "oci",
     "openstack", "vultr"}

PROVIDERS ==
    <<"alibaba", "aws", "azure", "digitalocean", "gcp", "oci", "openstack", "vultr">>

Registered == SubSeq(PROVIDERS, 1, NumProbes)

Runs == 1..MaxRuns
Range(s) == {s[i] : i \in 1..Len(s)}
ProbeIds == Range(Registered)
TimeoutArgs == {None} \cup {Some(n) : n \in 0..MaxTimeout}
Pending == [by |-> "pending", val |-> Unknown]
NotReady == [head |-> "none", fin |-> FALSE, elapsed |-> FALSE, done |-> FALSE]
\* no identify call is followed
NoProbe == [id |-> "none"]

VARIABLES
    api,        \* "async" (src/lib.rs) or "blocking" (src/blocking/mod.rs)
    matches,    \* the providers whose checks are positive on this host
    providers,  \* contents of the PROVIDERS static
    guard,      \* holder of the registry mutex: 0 free, r the detect run r
    pc,         \* pc[r]: position of detect run r
    timeout,    \* timeout[r]: the run's timeout in seconds
    fired,      \* fired[r]: the timer of the run's sleep / recv_timeout has fired
    rx,         \* rx[r]: the channel/counter/Notify created by run r
    entries,    \* entries[r]: provider_entries, the run's copy of the registry
    spawned,    \* spawned[r]: number of loop iterations done
    chan,       \* chan[c]: messages pending in channel c
    closed,     \* closed[c]: the receiver of channel c was dropped
    senders,    \* senders[c]: live sending handles of channel c
    counter,    \* counter[c]: the AtomicUsize of the run
    complete,   \* complete[c]: the Notify holds a permit or has woken its waiter
    task,       \* task[r][p]: position of the task of probe p in run r
    result,     \* result[r]: value detect returned
    by,         \* by[r]: the branch that resolved run r
    sent,       \* sent[r]: what the tasks of run r published while it ran
    ready,      \* ready[r]: what was ready at the poll that resolved run r
    spResult,   \* last value supported_providers returned
    probe       \* one identify call followed check by check (ProbeSpec, CheckSpec)

vars == <<api, matches, providers, guard, pc, timeout, fired, rx, entries, spawned,
          chan, closed, senders, counter, complete, task, result, by, sent,
          ready, spResult, probe>>

\* ------------------------------------------------------ pure operators

\* timeout.unwrap_or(DEFAULT_DETECTION_TIMEOUT)
UnwrapOrDetectionTimeout(arg) == IF arg = None THEN DETECTION_TIMEOUT ELSE arg[1]
UnwrapOr(arg) == IF arg = None THEN DEFAULT_DETECTION_TIMEOUT ELSE arg[1]

\* `mpsc::channel(1)`, `Arc::new(AtomicUsize)`, `Arc::new(Notify)` are locals
\* of the call: every run gets objects of its own.
ProcessWide(r) == 1
RunLocal(r) == r

\* guard.iter().cloned().collect()
SnapshotButFirst(reg) == Tail(reg)
Snapshot(reg) == reg

\* guard.iter().map(|p| p.identifier().to_string()).collect()
IdentifiersButLast(reg) == [i \in 1..(Len(reg) - 1) |-> reg[i]]
Identifiers(reg) == [i \in 1..Len(reg) |-> reg[i]]

\* the `if check_a || check_b { tx.send(IDENTIFIER) }` of every identify
PublishesAlways(p, env) == TRUE
PublishesInPriority(p, env) ==
    /\ p \in env
    /\ \A i, j \in 1..Len(Registered) :
          (Registered[i] = p /\ Registered[j] \in env) => i <= j
Publishes(p, env) == p \in env

\* tx.send(m) on the bounded channel: the buffer after the send, or the
\* buffer as it was while the sender has to wait for a free slot
OfferOverwrite(buf, m) == <<m>>
OfferUnbounded(buf, m) == Append(buf, m)
Offer(buf, m) == IF Len(buf) < ChannelCapacity THEN Append(buf, m) ELSE buf

\* counter.fetch_sub(1, SeqCst) == 1
IsLastOffByOne(prev) == prev = 0
IsLast(prev) == prev = 1

\* complete.notify_one(): with no waiter registered the permit is stored
NotifyWaiters(permit, waiting) == permit \/ waiting
NotifyOne(permit, waiting) == TRUE

\* the branches of the biased select of the async detect, in the order in
\* which one poll of the select polls them
Branches == <<"recv", "notified", "sleep">>

\* one branch polled: rx.recv(), complete.notified() or the sleep
PollBranch(b, buf, nsend, notified, elapsed) ==
    CASE b = "recv" ->
           IF buf # <<>> THEN [by |-> "message", val |-> Head(buf).id]
           ELSE IF nsend = 0 THEN [by |-> "closed", val |-> Unknown]
           ELSE Pending
      [] b = "notified" ->
           IF notified THEN [by |-> "finished", val |-> Unknown] ELSE Pending
      [] b = "sleep" ->
           IF elapsed THEN [by |-> "timeout", val |-> Unknown] ELSE Pending

\* the branch polled after branch b in the same poll, "wait" after the last
After(b) ==
    LET i == CHOOSE k \in 1..Len(Branches) : Branches[k] = b IN
    IF i < Len(Branches) THEN Branches[i + 1] ELSE "wait"

\* the biased select on a state that does not change during the poll (no
\* probe task runs between two branches): the first ready branch in order
SelectNoTimeout(buf, nsend, notified, elapsed) ==
    IF buf # <<>> THEN [by |-> "message", val |-> Head(buf).id]
    ELSE IF nsend = 0 THEN [by |-> "closed", val |-> Unknown]
    ELSE IF notified THEN [by |-> "finished", val |-> Unknown]
    ELSE Pending
Select(buf, nsend, notified, elapsed) ==
    IF buf # <<>> THEN [by |-> "message", val |-> Head(buf).id]
    ELSE IF nsend = 0 THEN [by |-> "closed", val |-> Unknown]
    ELSE IF notified THEN [by |-> "finished", val |-> Unknown]
    ELSE IF elapsed THEN [by |-> "timeout", val |-> Unknown]
    ELSE Pending

\* rx.recv_timeout(timeout) of the blocking detect, one iteration
RecvTimeoutAsError(buf, nsend, elapsed) ==
    IF buf # <<>> THEN [by |-> "message", val |-> Head(buf).id]
    ELSE IF nsend = 0 THEN [by |-> "disconnected", val |-> "error"]
    ELSE IF elapsed THEN [by |-> "timeout", val |-> "error"]
    ELSE Pending
RecvTimeout(buf, nsend, elapsed) ==
    IF buf # <<>> THEN [by |-> "message", val |-> Head(buf).id]
    ELSE IF nsend = 0 THEN [by |-> "disconnected", val |-> "error"]
    ELSE IF elapsed THEN [by |-> "timeout", val |-> Unknown]
    ELSE Pending

\* ------------------------------------------------------------ helpers
Finished(r) == \A p \in ProbeIds : task[r][p] = "done"
\* the async run is inside a poll of its select, past the first branch: pc
\* is the branch it polls next
Polling(r) == pc[r] \in Range(Branches)
Waiting(r) == pc[r] \in {"select", "wait"} \/ Polling(r)
\* the deadline has passed where the run looks at it. The sleep of the async
\* run is ready once its timer has fired, which takes a tick of the clock
\* even for a zero duration: sleep(Duration::ZERO) is pending when polled
\* right after its creation. recv_timeout compares the clock with its
\* deadline, which a zero duration makes the time of the call.
Elapsed(r) == fired[r] \/ (api = "blocking" /\ timeout[r] = 0)
\* the sleep of the run has not elapsed: it is created when the select starts
InTime(r) ==
    pc[r] \in {"spawn", "select"} \/ ((pc[r] = "wait" \/ Polling(r)) /\ ~Elapsed(r))
\* the run has resolved and is returning: its locals are being dropped
Resolved(r) == pc[r] \in {"ret", "drop"}
\* the run is between the spawn loop and the drop of its receiver
Live(r) == pc[r] = "spawn" \/ Waiting(r) \/ Resolved(r)
\* the branch the async run polls next: a poll starts with the first branch
Polled(r) == IF Polling(r) THEN pc[r] ELSE Branches[1]
\* the suspended async run is woken: one of its branches has become ready
Woken(r) ==
    Select(chan[rx[r]], senders[rx[r]], complete[rx[r]], Elapsed(r)) # Pending
\* what the run finds where it polls: the async run at one branch of its
\* select, the blocking run in recv_timeout
Outcome(r) ==
    IF api = "async"
    THEN PollBranch(Polled(r), chan[rx[r]], senders[rx[r]], complete[rx[r]],
                    Elapsed(r))
    ELSE RecvTimeout(chan[rx[r]], senders[rx[r]], Elapsed(r))

\* ---------------------------------------------------------------- Init
Init ==
    /\ api \in {"async", "blocking"}
    /\ matches \in SUBSET ProbeIds
    /\ providers = Registered
    /\ guard = 0
    /\ pc = [r \in Runs |-> "idle"]
    /\ timeout = [r \in Runs |-> 0]
    /\ fired = [r \in Runs |-> FALSE]
    /\ rx = [r \in Runs |-> 0]
    /\ entries = [r \in Runs |-> <<>>]
    /\ spawned = [r \in Runs |-> 0]
    /\ chan = [c \in Runs |-> <<>>]
    /\ closed = [c \in Runs |-> FALSE]
    /\ senders = [c \in Runs |-> 0]
    /\ counter = [c \in Runs |-> 0]
    /\ complete = [c \in Runs |-> FALSE]
    /\ task = [r \in Runs |-> [p \in ProbeIds |-> "unspawned"]]
    /\ result = [r \in Runs |-> "none"]
    /\ by = [r \in Runs |-> "none"]
    /\ sent = [r \in Runs |-> <<>>]
    /\ ready = [r \in Runs |-> NotReady]
    /\ spResult = <<>>
    /\ probe = NoProbe

\* ------------------------------------------------------- orchestrator

\* detect is called and asks for the registry mutex; the locals the call
\* has made by then (timeout, tx, rx) are not used before the mutex is held
\* and are set up by Acquire
DetectCall(r) ==
    /\ pc[r] = "idle"
    /\ \A q \in Runs : q < r => pc[q] # "idle"
    /\ pc' = [pc EXCEPT ![r] = "lock"]
    /\ UNCHANGED <<probe, fired, api, matches, providers, guard, timeout, rx, entries,
                   spawned, chan, closed, senders, counter, complete, task,
                   result, by, sent, ready, spResult>>

\* detect(arg) holds PROVIDERS.lock(): its timeout and channel, the copy of
\* the registry, the counter and the Notify
AcquireWithoutOwnSender(r, arg) ==
    /\ pc[r] = "lock"
    /\ \A q \in Runs : q < r => pc[q] \notin {"idle", "lock"}
    /\ guard = 0
    /\ guard' = r
    /\ timeout' = [timeout EXCEPT ![r] = UnwrapOr(arg)]
    /\ rx' = [rx EXCEPT ![r] = RunLocal(r)]
    /\ chan' = [chan EXCEPT ![RunLocal(r)] = <<>>]
    /\ closed' = [closed EXCEPT ![RunLocal(r)] = FALSE]
    /\ senders' = [senders EXCEPT ![RunLocal(r)] = 0]
    /\ entries' = [entries EXCEPT ![r] = Snapshot(providers)]
    /\ counter' = [counter EXCEPT ![RunLocal(r)] =
                      IF api = "async" THEN Len(Snapshot(providers)) ELSE @]
    /\ complete' = [complete EXCEPT ![RunLocal(r)] = FALSE]
    /\ pc' = [pc EXCEPT ![r] = "spawn"]
    /\ UNCHANGED <<probe, fired, api, matches, providers, spawned, task, result, by, sent,
                   ready, spResult>>
Acquire(r, arg) ==
    /\ pc[r] = "lock"
    /\ \A q \in Runs : q < r => pc[q] \notin {"idle", "lock"}
    /\ guard = 0
    /\ guard' = r
    /\ timeout' = [timeout EXCEPT ![r] = UnwrapOr(arg)]
    /\ rx' = [rx EXCEPT ![r] = RunLocal(r)]
    /\ chan' = [chan EXCEPT ![RunLocal(r)] = <<>>]
    /\ closed' = [closed EXCEPT ![RunLocal(r)] = FALSE]
    /\ senders' = [senders EXCEPT ![RunLocal(r)] = 1]
    /\ entries' = [entries EXCEPT ![r] = Snapshot(providers)]
    /\ counter' = [counter EXCEPT ![RunLocal(r)] =
                      IF api = "async" THEN Len(Snapshot(providers)) ELSE @]
    /\ complete' = [complete EXCEPT ![RunLocal(r)] = FALSE]
    /\ pc' = [pc EXCEPT ![r] = "spawn"]
    /\ UNCHANGED <<probe, fired, api, matches, providers, spawned, task, result, by, sent,
                   ready, spResult>>

\* one iteration of `for provider in provider_entries`
SpawnThenWait(r) ==
    /\ pc[r] = "spawn"
    /\ spawned[r] < Len(entries[r])
    /\ LET p == entries[r][spawned[r] + 1] IN
        /\ task' = [task EXCEPT ![r][p] = "identify"]
        /\ senders' = [senders EXCEPT ![rx[r]] = @ + 1]
    /\ spawned' = [spawned EXCEPT ![r] = @ + 1]
    /\ pc' = [pc EXCEPT ![r] = "select"]
    /\ UNCHANGED <<probe, fired, api, matches, providers, guard, timeout, rx, entries, chan,
                   closed, counter, complete, result, by, sent, ready, spResult>>
Spawn(r) ==
    /\ pc[r] = "spawn"
    /\ spawned[r] < Len(entries[r])
    /\ LET p == entries[r][spawned[r] + 1] IN
        /\ task' = [task EXCEPT ![r][p] = "identify"]
        /\ senders' = [senders EXCEPT ![rx[r]] = @ + 1]
    /\ spawned' = [spawned EXCEPT ![r] = @ + 1]
    /\ pc' = [pc EXCEPT ![r] =
                 IF spawned[r] + 1 = Len(entries[r]) THEN "select" ELSE "spawn"]
    /\ UNCHANGED <<probe, fired, api, matches, providers, guard, timeout, rx, entries, chan,
                   closed, counter, complete, result, by, sent, ready, spResult>>

\* the branch of the select polled / recv_timeout finds nothing ready: the
\* async run goes on to the next branch and is suspended after the last one,
\* the blocking run sleeps; a suspended async run polls again when woken.
\* Probe tasks run on other threads between two branches of one poll.
Poll(r) ==
    /\ \/ pc[r] = "select"
       \/ Polling(r)
       \/ api = "async" /\ pc[r] = "wait" /\ Woken(r)
    /\ Outcome(r) = Pending
    /\ pc' = [pc EXCEPT ![r] = IF api = "async" THEN After(Polled(r)) ELSE "wait"]
    /\ UNCHANGED <<probe, fired, api, matches, providers, guard, timeout, rx, entries,
                   spawned, chan, closed, senders, counter, complete, task,
                   result, by, sent, ready, spResult>>

\* the timer of the run's sleep fires / the deadline of recv_timeout passes
Elapse(r) ==
    /\ pc[r] = "wait" \/ Polling(r)
    /\ ~Elapsed(r)
    /\ fired' = [fired EXCEPT ![r] = TRUE]
    /\ UNCHANGED <<probe, timeout, api, matches, providers, guard, pc, rx, entries, spawned,
                   chan, closed, senders, counter, complete, task, result, by,
                   sent, ready, spResult>>

\* the branch polled / recv_timeout is ready: the branch taken fixes the
\* value returned; ready records the run's events at that instant
Resolve(r) ==
    /\ Waiting(r)
    /\ Outcome(r) # Pending
    /\ result' = [result EXCEPT ![r] = Outcome(r).val]
    /\ by' = [by EXCEPT ![r] = Outcome(r).by]
    /\ ready' = [ready EXCEPT ![r] =
                    [head |-> IF chan[rx[r]] # <<>> THEN Head(chan[rx[r]]).id
                              ELSE "none",
                     fin |-> api = "async" /\ complete[rx[r]],
                     elapsed |-> Elapsed(r),
                     done |-> Finished(r)]]
    /\ chan' = [chan EXCEPT ![rx[r]] =
                   IF Outcome(r).by = "message" THEN Tail(@) ELSE @]
    /\ complete' = [complete EXCEPT ![rx[r]] =
                       IF Outcome(r).by = "finished" THEN FALSE ELSE @]
    /\ pc' = [pc EXCEPT ![r] = "ret"]
    /\ UNCHANGED <<probe, fired, api, matches, providers, guard, timeout, rx, entries,
                   spawned, closed, senders, counter, task, sent, spResult>>

\* detect returns: its locals are dropped in reverse order of declaration,
\* the guard (declared last of the three) first: the registry is free while
\* the run's channel is still open
DropGuard(r) ==
    /\ pc[r] = "ret"
    /\ pc' = [pc EXCEPT ![r] = "drop"]
    /\ guard' = 0
    /\ UNCHANGED <<probe, fired, api, matches, providers, timeout, rx, entries, spawned,
                   chan, closed, senders, counter, complete, task, result, by,
                   sent, ready, spResult>>

\* then rx and tx are dropped and the caller has the value
ReturnKeepsReceiver(r) ==
    /\ pc[r] = "drop"
    /\ pc' = [pc EXCEPT ![r] = "returned"]
    /\ chan' = [chan EXCEPT ![rx[r]] = <<>>]
    /\ senders' = [senders EXCEPT ![rx[r]] = @ - 1]
    /\ timeout' = [timeout EXCEPT ![r] = 0]
    /\ fired' = [fired EXCEPT ![r] = FALSE]
    /\ sent' = [sent EXCEPT ![r] = <<>>]
    /\ ready' = [ready EXCEPT ![r] = NotReady]
    /\ UNCHANGED <<probe, api, matches, providers, guard, rx, entries, spawned,
                   counter, complete, task, result, by, closed, spResult>>
Return(r) ==
    /\ pc[r] = "drop"
    /\ pc' = [pc EXCEPT ![r] = "returned"]
    /\ closed' = [closed EXCEPT ![rx[r]] = TRUE]
    /\ chan' = [chan EXCEPT ![rx[r]] = <<>>]
    /\ senders' = [senders EXCEPT ![rx[r]] = @ - 1]
    /\ timeout' = [timeout EXCEPT ![r] = 0]
    /\ fired' = [fired EXCEPT ![r] = FALSE]
    /\ sent' = [sent EXCEPT ![r] = <<>>]
    /\ ready' = [ready EXCEPT ![r] = NotReady]
    /\ UNCHANGED <<probe, api, matches, providers, guard, rx, entries, spawned,
                   counter, complete, task, result, by, spResult>>

\* ----------------------------------------------------------- probe task
\* A task runs from one suspension point to the next in one step: the checks
\* of identify, then the send unless the channel is full, then the rest of
\* the spawned closure.

\* counter after the closure's fetch_sub (the blocking thread has none)
CounterAfterNoDecrement(r) == counter
CounterAfter(r) ==
    IF api = "async" THEN [counter EXCEPT ![rx[r]] = @ - 1] ELSE counter

\* the Notify after `if counter.fetch_sub(1, SeqCst) == 1 { notify_one() }`
CompleteAfter(r) ==
    IF api = "async" /\ IsLast(counter[rx[r]])
    THEN [complete EXCEPT ![rx[r]] = NotifyOne(@, pc[r] \in {"sleep", "wait"})]
    ELSE complete

\* identify runs its checks; on a positive verdict it sends, and waits when
\* the channel is full; once identify has returned the closure finishes
Identify(r, p) ==
    /\ task[r][p] = "identify"
    /\ LET m == [id |-> p, run |-> r]
           positive == Publishes(p, matches)
           gone == closed[rx[r]]
           room == Offer(chan[rx[r]], m) # chan[rx[r]]
       IN  IF positive /\ ~gone /\ ~room
           THEN /\ task' = [task EXCEPT ![r][p] = "send"]
                /\ UNCHANGED <<probe, fired, chan, sent, senders, counter, complete>>
           ELSE /\ task' = [task EXCEPT ![r][p] = "done"]
                /\ chan' = IF positive /\ ~gone
                           THEN [chan EXCEPT ![rx[r]] = Offer(@, m)] ELSE chan
                /\ sent' = IF positive /\ ~gone
                           THEN [sent EXCEPT ![r] =
                                    Append(@, [id |-> p, intime |-> InTime(r)])]
                           ELSE sent
                /\ senders' = [senders EXCEPT ![rx[r]] = @ - 1]
                /\ counter' = CounterAfter(r)
                /\ complete' = CompleteAfter(r)
    /\ UNCHANGED <<probe, fired, api, matches, providers, guard, pc, timeout, rx, entries,
                   spawned, closed, result, by, ready, spResult>>

\* a waiting tx.send(IDENTIFIER) completes: the channel takes the message
Send(r, p) ==
    /\ task[r][p] = "send"
    /\ ~closed[rx[r]]
    /\ LET m == [id |-> p, run |-> r] IN
        /\ Offer(chan[rx[r]], m) # chan[rx[r]]
        /\ chan' = [chan EXCEPT ![rx[r]] = Offer(@, m)]
    /\ sent' = [sent EXCEPT ![r] = Append(@, [id |-> p, intime |-> InTime(r)])]
    /\ task' = [task EXCEPT ![r][p] = "done"]
    /\ senders' = [senders EXCEPT ![rx[r]] = @ - 1]
    /\ counter' = CounterAfter(r)
    /\ complete' = CompleteAfter(r)
    /\ UNCHANGED <<probe, fired, api, matches, providers, guard, pc, timeout, rx, entries,
                   spawned, closed, result, by, ready, spResult>>

\* a waiting tx.send(IDENTIFIER) fails: the receiver is gone, the error is
\* logged inside the probe
SendErrorNeverWoken(r, p) ==
    /\ task[r][p] = "send"
    /\ closed[rx[r]]
    /\ UNCHANGED vars
SendError(r, p) ==
    /\ task[r][p] = "send"
    /\ closed[rx[r]]
    /\ task' = [task EXCEPT ![r][p] = "done"]
    /\ senders' = [senders EXCEPT ![rx[r]] = @ - 1]
    /\ counter' = CounterAfter(r)
    /\ complete' = CompleteAfter(r)
    /\ UNCHANGED <<probe, fired, api, matches, providers, guard, pc, timeout, rx, entries,
                   spawned, chan, closed, result, by, sent, ready, spResult>>

\* -------------------------------------------------- supported_providers
\* lock, map to the identifiers, drop(guard), return
SupportedProviders ==
    /\ guard = 0
    /\ spResult' = Identifiers(providers)
    /\ UNCHANGED <<probe, fired, api, matches, providers, guard, pc, timeout, rx, entries,
                   spawned, chan, closed, senders, counter, complete, task,
                   result, by, sent, ready>>

\* ------------------------------------------------ poisoned registry lock
\* blocking API: std::thread::spawn panics when the OS cannot create the
\* thread; detect unwinds while it holds the guard: the guard is dropped
\* first, which poisons and releases the mutex
SpawnPanic(r) ==
    /\ api = "blocking"
    /\ pc[r] = "spawn"
    /\ spawned[r] < Len(entries[r])
    /\ pc' = [pc EXCEPT ![r] = "unwind"]
    /\ guard' = Poisoned
    /\ UNCHANGED <<probe, fired, api, matches, providers, timeout, rx, entries, spawned,
                   chan, closed, senders, counter, complete, task, result, by,
                   sent, ready, spResult>>

\* the unwinding then drops rx and tx
Unwind(r) ==
    /\ pc[r] = "unwind"
    /\ pc' = [pc EXCEPT ![r] = "panicked"]
    /\ closed' = [closed EXCEPT ![rx[r]] = TRUE]
    /\ chan' = [chan EXCEPT ![rx[r]] = <<>>]
    /\ senders' = [senders EXCEPT ![rx[r]] = @ - 1]
    /\ timeout' = [timeout EXCEPT ![r] = 0]
    /\ fired' = [fired EXCEPT ![r] = FALSE]
    /\ sent' = [sent EXCEPT ![r] = <<>>]
    /\ UNCHANGED <<probe, api, matches, providers, guard, rx, entries, spawned,
                   counter, complete, task, result, by, ready, spResult>>

\* blocking detect finds the mutex poisoned: `.map_err(..)?` returns the
\* error before the registry is copied; tx and rx are dropped
LockErrorAsUnknown(r) ==
    /\ api = "blocking"
    /\ pc[r] = "lock"
    /\ \A q \in Runs : q < r => pc[q] \notin {"idle", "lock"}
    /\ guard = Poisoned
    /\ result' = [result EXCEPT ![r] = Unknown]
    /\ by' = [by EXCEPT ![r] = "lock"]
    /\ rx' = [rx EXCEPT ![r] = RunLocal(r)]
    /\ chan' = [chan EXCEPT ![RunLocal(r)] = <<>>]
    /\ closed' = [closed EXCEPT ![RunLocal(r)] = TRUE]
    /\ senders' = [senders EXCEPT ![RunLocal(r)] = 0]
    /\ pc' = [pc EXCEPT ![r] = "returned"]
    /\ UNCHANGED <<probe, fired, api, matches, providers, guard, timeout, entries, spawned,
                   counter, complete, task, sent, ready, spResult>>
LockError(r) ==
    /\ api = "blocking"
    /\ pc[r] = "lock"
    /\ \A q \in Runs : q < r => pc[q] \notin {"idle", "lock"}
    /\ guard = Poisoned
    /\ result' = [result EXCEPT ![r] = LockErr]
    /\ by' = [by EXCEPT ![r] = "lock"]
    /\ rx' = [rx EXCEPT ![r] = RunLocal(r)]
    /\ chan' = [chan EXCEPT ![RunLocal(r)] = <<>>]
    /\ closed' = [closed EXCEPT ![RunLocal(r)] = TRUE]
    /\ senders' = [senders EXCEPT ![RunLocal(r)] = 0]
    /\ pc' = [pc EXCEPT ![r] = "returned"]
    /\ UNCHANGED <<probe, fired, api, matches, providers, guard, timeout, entries, spawned,
                   counter, complete, task, sent, ready, spResult>>

\* blocking supported_providers finds the mutex poisoned
SupportedProvidersError ==
    /\ api = "blocking"
    /\ guard = Poisoned
    /\ spResult' = Err(LockErr)
    /\ UNCHANGED <<probe, fired, api, matches, providers, guard, pc, timeout, rx, entries,
                   spawned, chan, closed, senders, counter, complete, task,
                   result, by, sent, ready>>

\* ---------------------------------------------------------------- Next
Next ==
    \/ \E r \in Runs : DetectCall(r)
    \/ \E r \in Runs, arg \in TimeoutArgs : Acquire(r, arg)
    \/ \E r \in Runs : Spawn(r)
    \/ \E r \in Runs : Poll(r)
    \/ \E r \in Runs : Elapse(r)
    \/ \E r \in Runs : Resolve(r)
    \/ \E r \in Runs : DropGuard(r)
    \/ \E r \in Runs : Return(r)
    \/ \E r \in Runs, p \in ProbeIds : Identify(r, p)
    \/ \E r \in Runs, p \in ProbeIds : Send(r, p)
    \/ \E r \in Runs, p \in ProbeIds : SendError(r, p)

Spec == Init /\ [][Next]_vars

\* the detect runs together with calls of supported_providers
NextRegistry == Next \/ SupportedProviders

RegistrySpec == Init /\ [][NextRegistry]_vars

\* the registry together with the failure that poisons its lock
NextPoison ==
    \/ NextRegistry
    \/ \E r \in Runs : SpawnPanic(r)
    \/ \E r \in Runs : Unwind(r)
    \/ \E r \in Runs : LockError(r)
    \/ SupportedProvidersError

PoisonSpec == Init /\ [][NextPoison]_vars

\* a step of the call of detect r or of its timer
Orchestrator(r) ==
    \/ \E arg \in TimeoutArgs : Acquire(r, arg)
    \/ Spawn(r)
    \/ Poll(r)
    \/ Elapse(r)
    \/ Resolve(r)
    \/ DropGuard(r)
    \/ Return(r)

\* the caller's thread (or task) and the timer are scheduled, and the
\* registry mutex is granted once it is free; nothing is assumed of the
\* probe tasks
Fairness == \A r \in Runs : WF_vars(Orchestrator(r))

FairSpec == Init /\ [][Next]_vars /\ Fairness

\* a publisher waiting in tx.send is woken when the slot is freed or the
\* receiver is dropped, and is scheduled then
Publisher(r, p) == Send(r, p) \/ SendError(r, p)

PublisherFairness == \A r \in Runs, p \in ProbeIds : WF_vars(Publisher(r, p))

PublishSpec == Init /\ [][Next]_vars /\ Fairness /\ PublisherFairness

\* ======================================================= one probe call
\* The identify call of one provider, followed check by check. The host is
\* the outcome each read of a vendor file and each metadata request meets;
\* the orchestrator does not move.

\* what a check can meet at the path of a vendor file (nothing the check
\* reads: "absent"; a read that fails: "unreadable"; a content without or
\* with a vendor string), and what a metadata request can meet
FileOutcomes == {"absent", "unreadable", "nomatch", "match"}
\* (the GCP and OpenStack checks answer with the status of the response and
\* never read its payload: no payload is a bad one for them)
StatusOnly == {"gcp", "openstack"}
NetOutcomes(p) ==
    {"client_error", "request_error", "nomatch", "match", "silent"}
        \cup (IF p \in StatusOnly THEN {} ELSE {"bad_payload"})
\* the durations an identify call can be given as its timeout
Durations == {UnwrapOr(arg) : arg \in TimeoutArgs}

\* the IDENTIFIER constant of each provider module, as ProviderId displays it
ModuleIdentifier ==
    [alibaba |-> "alibaba", aws |-> "aws", azure |-> "azure",
     digitalocean |-> "digitalocean", gcp |-> "gcp", oci |-> "oci",
     openstack |-> "openstack", vultr |-> "vultr"]
IdentifierDefault(p) == Unknown
IDENTIFIER(p) == ModuleIdentifier[p]
\* the checks of identify, in the order of its `||` chain: a check of one
\* vendor file, the OpenStack check of two vendor files, a metadata check
Checks(p) ==
    CASE p = "aws" -> <<"file", "file", "net", "net">>
      [] p = "openstack" -> <<"files", "net">>
      [] OTHER -> <<"file", "net">>

\* check_vendor_file, and each of the two reads of check_vendor_files: false
\* unless the file is there, is read and contains a vendor string
CheckVendorFileUnreadableMatches(f) == f \in {"match", "unreadable"}
CheckVendorFile(f) == f = "match"
\* check_vendor_files on the product name file and the chassis asset tag
\* file: true when the first matches, or when the second does after a first
\* that is missing, unreadable or without a known name
CheckVendorFiles(fs) == CheckVendorFile(fs[1]) \/ CheckVendorFile(fs[2])

\* check_metadata_server: false unless the client is built, the request is
\* answered and the payload has the expected content
CheckMetadataServer(n) == n = "match"

\* the timeout of the HTTP client of provider p: the async OCI and Vultr
\* probes call reqwest::get(url), which has none
RequestTimeout(a, p, t) ==
    IF a = "async" /\ p \in {"oci", "vultr"} THEN None ELSE Some(t)

\* the outcomes of a read or of a request that are failures for provider p
\* called with timeout t: the check logs an error. A server that does not
\* answer is one when the client has a timeout: send() then returns the
\* error. A failure makes the read or the request no match; the check that
\* met it goes on (check_vendor_files to its second file) or answers false.
Failures(a, p, t) ==
    {"unreadable", "client_error", "request_error"}
        \cup (IF p \in StatusOnly THEN {} ELSE {"bad_payload"})
        \cup (IF RequestTimeout(a, p, t) # None THEN {"silent"} ELSE {})

\* the `||` chain after a check: a positive check ends it and the probe
\* publishes; a negative one goes on to the next check or returns
AfterCheckEager(pr, positive) ==
    IF pr.pos < Len(pr.env)
    THEN [pr EXCEPT !.state = "check", !.pos = @ + 1,
                    !.hit = pr.hit \/ positive]
    ELSE [pr EXCEPT !.state = IF pr.hit \/ positive THEN "send" ELSE "returned",
                    !.hit = pr.hit \/ positive]
AfterCheck(pr, positive) ==
    IF positive THEN [pr EXCEPT !.state = "send", !.hit = TRUE]
    ELSE IF pr.pos < Len(pr.env)
         THEN [pr EXCEPT !.state = "check", !.pos = @ + 1]
         ELSE [pr EXCEPT !.state = "returned"]

\* the hosts a probe with the given checks can meet: for each check the
\* outcomes of its reads or of its request, in order (one file, the two
\* files of check_vendor_files, one metadata request)
Meets(p, kind) ==
    CASE kind = "file" -> {<<f>> : f \in FileOutcomes}
      [] kind = "files" -> FileOutcomes \X FileOutcomes
      [] kind = "net" -> {<<n>> : n \in NetOutcomes(p)}
Hosts(p) ==
    {e \in [1..Len(Checks(p)) ->
               UNION {Meets(p, kind) : kind \in Range(Checks(p))}] :
        \A i \in 1..Len(Checks(p)) : e[i] \in Meets(p, Checks(p)[i])}
\* a check returns: its answer is entered in res and the chain goes on
Answers(pr, positive) ==
    AfterCheck([pr EXCEPT !.res = Append(@, positive)], positive)

orchestration == <<api, matches, providers, guard, pc, timeout, fired, rx, entries,
                   spawned, chan, closed, senders, counter, complete, task,
                   result, by, sent, ready, spResult>>

\* a task was spawned for one registered provider on some host by a run
\* with timeout `run`, and the run's receiver is alive or already dropped.
\* The blocking detect hands identify the run's timeout. The async detect
\* calls identify(tx) with no timeout, while the async modules whose checks
\* build a client declare identify(&self, tx, timeout): no caller binds
\* that parameter, so it is any duration.
InitProbe ==
    /\ api \in {"async", "blocking"}
    /\ matches = {}
    /\ providers = Registered
    /\ guard = 0
    /\ pc = [r \in Runs |-> "idle"]
    /\ timeout = [r \in Runs |-> 0]
    /\ fired = [r \in Runs |-> FALSE]
    /\ rx = [r \in Runs |-> 0]
    /\ entries = [r \in Runs |-> <<>>]
    /\ spawned = [r \in Runs |-> 0]
    /\ chan = [c \in Runs |-> <<>>]
    /\ closed = [c \in Runs |-> FALSE]
    /\ senders = [c \in Runs |-> 0]
    /\ counter = [c \in Runs |-> 0]
    /\ complete = [c \in Runs |-> FALSE]
    /\ task = [r \in Runs |-> [p \in ProbeIds |-> "unspawned"]]
    /\ result = [r \in Runs |-> "none"]
    /\ by = [r \in Runs |-> "none"]
    /\ sent = [r \in Runs |-> <<>>]
    /\ ready = [r \in Runs |-> NotReady]
    /\ spResult = <<>>
    /\ \E p \in Range(PROVIDERS), arg \in TimeoutArgs, rcv \in {"open", "closed"} :
         \E e \in Hosts(p) :
         \E t \in (IF api = "blocking" THEN {UnwrapOr(arg)} ELSE Durations) :
            probe = [id |-> p, env |-> e, run |-> UnwrapOr(arg), timeout |-> t,
                     recv |-> rcv, state |-> "check", pos |-> 1, hit |-> FALSE,
                     res |-> <<>>, issued |-> 0, published |-> FALSE, msg |-> "none",
                     counted |-> FALSE]

\* a vendor file check
ProbeCheckFile ==
    /\ probe.id # "none"
    /\ probe.state = "check"
    /\ Checks(probe.id)[probe.pos] = "file"
    /\ probe' = Answers(probe, CheckVendorFile(probe.env[probe.pos][1]))
    /\ UNCHANGED orchestration

\* check_vendor_files reads the product name file: a known name returns
\* true; a file that is missing, cannot be read (the error is logged) or
\* holds no known name is followed by the chassis asset tag file
ProbeCheckProductName ==
    /\ probe.id # "none"
    /\ probe.state = "check"
    /\ Checks(probe.id)[probe.pos] = "files"
    /\ probe' = IF CheckVendorFile(probe.env[probe.pos][1])
                THEN Answers(probe, TRUE)
                ELSE [probe EXCEPT !.state = "chassis"]
    /\ UNCHANGED orchestration

\* check_vendor_files reads the chassis asset tag file and returns
ProbeCheckChassisAssetTag ==
    /\ probe.id # "none"
    /\ probe.state = "chassis"
    /\ probe' = Answers(probe, CheckVendorFile(probe.env[probe.pos][2]))
    /\ UNCHANGED orchestration

\* a metadata check builds its client and sends the request; a client that
\* cannot be built makes the check negative without a request
ProbeRequest ==
    /\ probe.id # "none"
    /\ probe.state = "check"
    /\ Checks(probe.id)[probe.pos] = "net"
    /\ probe' = IF probe.env[probe.pos][1] = "client_error"
                THEN Answers(probe, FALSE)
                ELSE [probe EXCEPT !.state = "request", !.issued = @ + 1]
    /\ UNCHANGED orchestration

\* the request is answered or fails: the check is positive on the expected
\* payload and negative on an error or on any other payload
ProbeResponse ==
    /\ probe.id # "none"
    /\ probe.state = "request"
    /\ probe.env[probe.pos][1] # "silent"
    /\ probe' = Answers(probe, CheckMetadataServer(probe.env[probe.pos][1]))
    /\ UNCHANGED orchestration

\* the server does not answer: the client's timeout ends the request with an
\* error; a request without a timeout stays pending
ProbeRequestTimeout ==
    /\ probe.id # "none"
    /\ probe.state = "request"
    /\ probe.env[probe.pos][1] = "silent"
    /\ RequestTimeout(api, probe.id, probe.timeout) # None
    /\ probe' = Answers(probe, FALSE)
    /\ UNCHANGED orchestration

\* tx.send(IDENTIFIER): the message is accepted, or the receiver is gone and
\* the error is logged; identify returns either way
ProbePublish ==
    /\ probe.id # "none"
    /\ probe.state = "send"
    /\ probe' = [probe EXCEPT !.state = "returned",
                              !.published = (probe.recv = "open"),
                              !.msg = IF probe.recv = "open"
                                      THEN IDENTIFIER(probe.id) ELSE @]
    /\ UNCHANGED orchestration

\* identify has returned: the async closure counts the task as finished
\* (fetch_sub), the blocking thread ends
ProbeFinish ==
    /\ probe.id # "none"
    /\ probe.state = "returned"
    /\ probe' = [probe EXCEPT !.state = "finished", !.counted = (api = "async")]
    /\ UNCHANGED orchestration

NextProbe ==
    \/ ProbeCheckFile
    \/ ProbeCheckProductName
    \/ ProbeCheckChassisAssetTag
    \/ ProbeRequest
    \/ ProbeResponse
    \/ ProbeRequestTimeout
    \/ ProbePublish
    \/ ProbeFinish

ProbeSpec == InitProbe /\ [][NextProbe]_vars

\* ==================================================== the checks of a probe
\* What the checks of a probe read and what they answer. A file is what its
\* path holds on the host, a response is what the metadata address answers to
\* one request. The functions of src/providers and of src/blocking/providers
\* differ only in awaiting.

\* str::contains, str::starts_with, String::is_empty and str::to_lowercase
Contains(s, m) ==
    \E i \in 0..(Len(s) - Len(m)) : SubSeq(s, i + 1, i + Len(m)) = m
StartsWith(s, m) == Len(s) >= Len(m) /\ SubSeq(s, 1, Len(m)) = m
IsEmpty(s) == Len(s) = 0
Lowercase ==
    [A |-> "a", B |-> "b", C |-> "c", D |-> "d", E |-> "e", F |-> "f",
     G |-> "g", H |-> "h", I |-> "i", J |-> "j", K |-> "k", L |-> "l",
     M |-> "m", N |-> "n", O |-> "o", P |-> "p", Q |-> "q", R |-> "r",
     S |-> "s", T |-> "t", U |-> "u", V |-> "v", W |-> "w", X |-> "x",
     Y |-> "y", Z |-> "z"]
RECURSIVE ToLowercase(_)
ToLowercase(s) ==
    IF IsEmpty(s) THEN s
    ELSE LET c == SubSeq(s, 1, 1) IN
         (IF c \in DOMAIN Lowercase THEN Lowercase[c] ELSE c)
            \o ToLowercase(SubSeq(s, 2, Len(s)))

\* the paths the file checks read
PRODUCT_VERSION_FILE == "/sys/class/dmi/id/product_version"
BIOS_VENDOR_FILE == "/sys/class/dmi/id/bios_vendor"
PRODUCT_NAME_FILE == "/sys/class/dmi/id/product_name"
CHASSIS_ASSET_TAG_FILE == "/sys/class/dmi/id/chassis_asset_tag"
VENDOR_FILE ==
    [alibaba |-> "/sys/class/dmi/id/product_name",
     azure |-> "/sys/class/dmi/id/sys_vendor",
     digitalocean |-> "/sys/class/dmi/id/sys_vendor",
     gcp |-> "/sys/class/dmi/id/product_name",
     oci |-> "/sys/class/dmi/id/chassis_asset_tag",
     vultr |-> "/sys/class/dmi/id/sys_vendor"]
\* the string each single-file check looks for
VendorString ==
    [alibaba |-> "Alibaba Cloud ECS", aws |-> "amazon",
     azure |-> "Microsoft Corporation", digitalocean |-> "DigitalOcean",
     gcp |-> "Google", oci |-> "OracleCloud", vultr |-> "Vultr"]
PRODUCT_NAMES == <<"Openstack Nova", "OpenStack Compute">>
CHASSIS_ASSET_TAGS ==
    <<"HUAWEICLOUD", "OpenTelekomCloud", "SAP CCloud VM", "OpenStack Nova",
      "OpenStack Compute">>

\* a path on the host: nothing ("absent"), a regular file with its content
\* ("file"), a regular file that cannot be read as text ("unreadable"),
\* something that is no regular file and gives a content when it is read
\* ("fifo": a FIFO, a device), or a directory, whose read fails
File(path, kind, content) ==
    [path |-> path, kind |-> kind, content |-> content]
exists(f) == f.kind # "absent"
is_file(f) == f.kind \in {"file", "unreadable"}
read_to_string(f) ==
    IF f.kind \in {"file", "fifo"} THEN Some(f.content) ELSE None

\* check_vendor_file (for AWS check_product_version_file and
\* check_bios_vendor_file, which lower-case the content first): the path is
\* read when it is a regular file, in the blocking GCP module when it exists
check_vendor_file(a, p, f) ==
    IF (IF a = "blocking" /\ p = "gcp" THEN exists(f) ELSE is_file(f))
    THEN LET content == read_to_string(f) IN
         IF content # None
         THEN Contains(IF p = "aws" THEN ToLowercase(content[1])
                       ELSE content[1], VendorString[p])
         ELSE FALSE
    ELSE FALSE

\* one file of check_vendor_files: PRODUCT_NAMES.iter().any(..) or
\* CHASSIS_ASSET_TAGS.iter().any(..) on the content of a file that is read
any_first_only(f, names) ==
    /\ is_file(f)
    /\ read_to_string(f) # None
    /\ Contains(read_to_string(f)[1], names[1])
any(f, names) ==
    /\ is_file(f)
    /\ read_to_string(f) # None
    /\ \E i \in 1..Len(names) : Contains(read_to_string(f)[1], names[i])
\* a JSON value: null, a boolean, a string, a number as its literal is
\* written ("12", "-1", "1.0", "1e2"), an object with its members in the
\* order of the text (a name can be written twice) or an array with its
\* elements
JNull == [t |-> "null", v |-> ""]
JBool(b) == [t |-> "bool", v |-> b]
JString(s) == [t |-> "string", v |-> s]
JNumber(lit) == [t |-> "number", v |-> lit]
Member(k, v) == [k |-> k, v |-> v]
JObject(members) == [t |-> "object", v |-> members]
JArray(elems) == [t |-> "array", v |-> elems]

\* decimal digit strings, compared as numbers (no leading zeros)
DigitValue ==
    ("0" :> 0) @@ ("1" :> 1) @@ ("2" :> 2) @@ ("3" :> 3) @@ ("4" :> 4) @@
    ("5" :> 5) @@ ("6" :> 6) @@ ("7" :> 7) @@ ("8" :> 8) @@ ("9" :> 9)
IsDigits(s) ==
    /\ ~IsEmpty(s)
    /\ \A i \in 1..Len(s) : SubSeq(s, i, i) \in DOMAIN DigitValue
RECURSIVE LexLeq(_, _)
LexLeq(a, b) ==
    IF IsEmpty(a) THEN TRUE
    ELSE LET x == DigitValue[SubSeq(a, 1, 1)]
             y == DigitValue[SubSeq(b, 1, 1)]
         IN  x < y \/ (x = y /\ LexLeq(SubSeq(a, 2, Len(a)), SubSeq(b, 2, Len(b))))
DecLeq(a, b) == Len(a) < Len(b) \/ (Len(a) = Len(b) /\ LexLeq(a, b))
\* u64::MAX, i64::MAX and the magnitude of i64::MIN
U64_MAX == "18446744073709551615"
I64_MAX == "9223372036854775807"
I64_MIN_MAGNITUDE == "9223372036854775808"

\* serde_json reads a number literal as a u64, as a negative i64, or as a
\* float: a literal with a fraction or an exponent, an integer beyond these
\* widths and -0 are floats
ParseNumber(lit) ==
    IF IsDigits(lit) /\ DecLeq(lit, U64_MAX)
    THEN [kind |-> "u64", neg |-> FALSE, mag |-> lit]
    ELSE IF /\ StartsWith(lit, "-")
            /\ IsDigits(SubSeq(lit, 2, Len(lit)))
            /\ SubSeq(lit, 2, Len(lit)) # "0"
            /\ DecLeq(SubSeq(lit, 2, Len(lit)), I64_MIN_MAGNITUDE)
    THEN [kind |-> "i64", neg |-> TRUE, mag |-> SubSeq(lit, 2, Len(lit))]
    ELSE [kind |-> "f64", neg |-> FALSE, mag |-> ""]
\* an integer a field holds: its sign and its magnitude in decimal
Integer(neg, mag) == [neg |-> neg, mag |-> mag]
\* Deserialize of usize and of isize (64 bits wide) from a number literal:
\* neither takes a float, usize no negative number, isize nothing above
\* i64::MAX
usize(lit) ==
    LET n == ParseNumber(lit) IN
    IF n.kind = "u64" THEN Some(Integer(FALSE, n.mag)) ELSE None
isize(lit) ==
    LET n == ParseNumber(lit) IN
    IF n.kind = "u64" /\ DecLeq(n.mag, I64_MAX) THEN Some(Integer(FALSE, n.mag))
    ELSE IF n.kind = "i64" THEN Some(Integer(TRUE, n.mag))
    ELSE None
\* n > 0
Positive(n) == ~n.neg /\ n.mag # "0"

\* the derived Deserialize reads field number i, named k, of a struct of n
\* fields from JSON value v: from an object the member named k (members of
\* other names are ignored; a missing field and a field written twice are
\* errors), from an array of n elements the i-th
Field(v, k, i, n) ==
    IF v.t = "object"
    THEN LET named == SelectSeq(v.v, LAMBDA m : m.k = k) IN
         IF Len(named) = 1 THEN Some(named[1].v) ELSE None
    ELSE IF v.t = "array" /\ Len(v.v) = n THEN Some(v.v[i])
    ELSE None
IsString(f) == f # None /\ f[1].t = "string"
IsNumber(f) == f # None /\ f[1].t = "number"

\* serde's Deserialize of the MetadataResponse struct of provider p from a
\* JSON value: Some(struct) when every field is there once with its type,
\* None otherwise
MetadataResponse(p, v) ==
    CASE p = "aws" ->
           LET image_id == Field(v, "imageId", 1, 2)
               instance_id == Field(v, "instanceId", 2, 2)
           IN  IF IsString(image_id) /\ IsString(instance_id)
               THEN Some([image_id |-> image_id[1].v,
                          instance_id |-> instance_id[1].v])
               ELSE None
      [] p = "azure" ->
           LET compute == Field(v, "compute", 1, 1)
               vm_id == IF compute = None THEN None
                        ELSE Field(compute[1], "vmId", 1, 1)
           IN  IF IsString(vm_id)
               THEN Some([compute |-> [vm_id |-> vm_id[1].v]])
               ELSE None
      [] p = "digitalocean" ->
           LET droplet_id == Field(v, "droplet_id", 1, 1)
           IN  IF IsNumber(droplet_id) /\ usize(droplet_id[1].v) # None
               THEN Some([droplet_id |-> usize(droplet_id[1].v)[1]])
               ELSE None
      [] p = "oci" ->
           LET oke_tm == Field(v, "oke-tm", 1, 1)
           IN  IF IsString(oke_tm)
               THEN Some([oke_tm |-> oke_tm[1].v])
               ELSE None
      [] p = "vultr" ->
           LET instance_id == Field(v, "instanceid", 1, 1)
           IN  IF IsString(instance_id)
               THEN Some([instance_id |-> instance_id[1].v])
               ELSE None
      [] p = "akamai" ->
           LET id == Field(v, "id", 1, 2)
               host_uuid == Field(v, "host_uuid", 2, 2)
           IN  IF IsNumber(id) /\ isize(id[1].v) # None /\ IsString(host_uuid)
               THEN Some([id |-> isize(id[1].v)[1], host_uuid |-> host_uuid[1].v])
               ELSE None

\* what a check requires of the struct it parsed
MatchesAnyStruct(p, m) == TRUE
Matches(p, m) ==
    CASE p = "aws" ->
           StartsWith(m.image_id, "ami-") /\ StartsWith(m.instance_id, "i-")
      [] p = "azure" -> ~IsEmpty(m.compute.vm_id)
      [] p = "digitalocean" -> Positive(m.droplet_id)
      [] p = "oci" -> Contains(m.oke_tm, "oke")
      [] p = "vultr" -> Len(m.instance_id) > 0
      [] p = "akamai" -> Positive(m.id) /\ ~IsEmpty(m.host_uuid)

\* what send() gives: an error (the request failed, or the client's timeout
\* ended it), or a response with its status and its body; a body is its text
\* (None if it cannot be read) and the JSON value the text stands for (None
\* if it is not JSON)
NoResponse == [ok |-> FALSE, timed_out |-> FALSE]
TimedOut == [ok |-> FALSE, timed_out |-> TRUE]
Response(status, body) == [ok |-> TRUE, status |-> status, body |-> body]
BrokenBody == [text |-> None, json |-> None]
TextBody(s) == [text |-> Some(s), json |-> None]
JsonBody(s, v) == [text |-> Some(s), json |-> Some(v)]
\* resp.status().is_success(), resp.text(), resp.json::<MetadataResponse>()
is_success(r) == r.status \in 200..299
text(r) == r.body.text
json(p, r) ==
    IF r.body.json = None THEN None ELSE MetadataResponse(p, r.body.json[1])

\* the paths the metadata checks request
METADATA_PATH ==
    [akamai |-> "/v1/instance",
     alibaba |-> "/latest/meta-data/latest/meta-data/instance/virtualization-solution",
     aws |-> "/latest/dynamic/instance-identity/document",
     azure |-> "/metadata/instance?api-version=2017-12-01",
     digitalocean |-> "/metadata/v1.json",
     gcp |-> "/computeMetadata/v1/instance/tags",
     oci |-> "/opc/v1/instance/metadata/",
     openstack |-> "/openstack/",
     vultr |-> "/v1.json"]
METADATA_TOKEN_PATH == [akamai |-> "/v1/token", aws |-> "/latest/api/token"]

\* what a metadata check answers to the outcome of its metadata request:
\* GCP and OpenStack look at the status only; Alibaba looks at the text and
\* the others at the parsed struct, whatever the status
check_metadata_server(p, r) ==
    IF ~r.ok THEN FALSE
    ELSE CASE p \in {"gcp", "openstack"} -> is_success(r)
           [] p = "alibaba" ->
                text(r) # None /\ Contains(text(r)[1], "ECS Virt")
           [] OTHER ->
                LET resp == json(p, r) IN
                resp # None /\ Matches(p, resp[1])

\* the token of a token check: the text of the answer to the token request,
\* empty if the text cannot be read. The text of a token response is written
\* as the sequence of the bytes of the String: <<49, 50, 51>> is "123".
Token(r) == IF text(r) = None THEN <<>> ELSE text(r)[1]
\* the checks of identify by name, in the order of its `||` chain
ChainImdsv1First(p) ==
    CASE p = "aws" ->
           <<"check_product_version_file", "check_bios_vendor_file",
             "check_metadata_server_imdsv1", "check_metadata_server_imdsv2">>
      [] p = "openstack" -> <<"check_vendor_files", "check_metadata_server">>
      [] p = "akamai" -> <<"check_metadata_server">>
      [] OTHER -> <<"check_vendor_file", "check_metadata_server">>
Chain(p) ==
    CASE p = "aws" ->
           <<"check_product_version_file", "check_bios_vendor_file",
             "check_metadata_server_imdsv2", "check_metadata_server_imdsv1">>
      [] p = "openstack" -> <<"check_vendor_files", "check_metadata_server">>
      [] p = "akamai" -> <<"check_metadata_server">>
      [] OTHER -> <<"check_vendor_file", "check_metadata_server">>
\* the checks that read one file, and the path each is called with
SingleFileChecks ==
    {"check_vendor_file", "check_product_version_file", "check_bios_vendor_file"}
PathOf(p, name) ==
    CASE name = "check_product_version_file" -> PRODUCT_VERSION_FILE
      [] name = "check_bios_vendor_file" -> BIOS_VENDOR_FILE
      [] OTHER -> VENDOR_FILE[p]
\* the checks that ask for a token first
TokenCheck(p, name) ==
    \/ p = "aws" /\ name = "check_metadata_server_imdsv2"
    \/ p = "akamai" /\ name = "check_metadata_server"
\* a token check returns false after its token request when the request
\* failed or the token is empty
TokenRejectedOnErrorOnly(r) == ~r.ok
TokenRejected(r) == ~r.ok \/ IsEmpty(Token(r))
\* a request: its path and the token its token header carries
Request(path, token) == [path |-> path, token |-> token]
\* .header(name, token) makes a HeaderValue of the token: every byte must be
\* the tab or at least 32 and not 127 (no control character but the tab;
\* bytes of 128 and above pass); with any other byte the request is not
\* sent and send() gives the error
is_valid(b) == (b >= 32 /\ b # 127) \/ b = 9
HeaderValue(token) ==
    IF \A i \in 1..Len(token) : is_valid(token[i])
    THEN Some(token) ELSE None

\* the hosts: what a file check can find at its path
FileContents(p) ==
    CASE p = "aws" -> {"", "Xen", "amazon", "Amazon EC2", "4.11.AMAZON\n"}
      [] p = "openstack" ->
           {"", "QEMU", "Openstack Nova", "OpenStack Nova\n",
            "OpenStack Compute", "SAP CCloud VM"}
      [] OTHER ->
           {"", "QEMU", VendorString[p], "A " \o VendorString[p] \o "\n",
            ToLowercase(VendorString[p])}
\* and what the read of a path that is no regular file can give
FifoContents(p) ==
    CASE p = "aws" -> {"Xen", "Amazon EC2"}
      [] p = "openstack" -> {"QEMU", "OpenStack Compute"}
      [] OTHER -> {"QEMU", VendorString[p]}
FileStates(p, path) ==
    {File(path, "absent", ""), File(path, "unreadable", ""),
     File(path, "directory", "")}
        \cup {File(path, "file", c) : c \in FileContents(p)}
        \cup {File(path, "fifo", c) : c \in FifoContents(p)}
\* the hosts: what a metadata address can answer
Statuses == {200, 204, 404, 500}
JsonBodies(p) ==
    CASE p = "aws" ->
           {JsonBody("{\"imageId\":\"ami-1\",\"instanceId\":\"i-1\"}",
                     JObject(<<Member("imageId", JString("ami-1")), Member("instanceId", JString("i-1"))>>)),
            JsonBody("{\"imageId\":\"img-1\",\"instanceId\":\"i-1\"}",
                     JObject(<<Member("imageId", JString("img-1")), Member("instanceId", JString("i-1"))>>)),
            JsonBody("{\"imageId\":\"ami-1\",\"instanceId\":\"\"}",
                     JObject(<<Member("imageId", JString("ami-1")), Member("instanceId", JString(""))>>)),
            JsonBody("{\"imageId\":\"ami-1\"}",
                     JObject(<<Member("imageId", JString("ami-1"))>>)),
            JsonBody("{\"imageId\":\"ami-1\",\"imageId\":\"ami-2\",\"instanceId\":\"i-1\"}",
                     JObject(<<Member("imageId", JString("ami-1")), Member("imageId", JString("ami-2")), Member("instanceId", JString("i-1"))>>)),
            JsonBody("{\"region\":\"a\",\"instanceId\":\"i-1\",\"region\":\"b\",\"imageId\":\"ami-1\"}",
                     JObject(<<Member("region", JString("a")), Member("instanceId", JString("i-1")), Member("region", JString("b")), Member("imageId", JString("ami-1"))>>)),
            JsonBody("{\"imageId\":null,\"instanceId\":\"i-1\"}",
                     JObject(<<Member("imageId", JNull), Member("instanceId", JString("i-1"))>>)),
            JsonBody("[\"ami-1\",\"i-1\"]",
                     JArray(<<JString("ami-1"), JString("i-1")>>)),
            JsonBody("[\"i-1\",\"ami-1\"]",
                     JArray(<<JString("i-1"), JString("ami-1")>>)),
            JsonBody("[\"ami-1\"]",
                     JArray(<<JString("ami-1")>>)),
            JsonBody("[\"ami-1\",\"i-1\",\"x\"]",
                     JArray(<<JString("ami-1"), JString("i-1"), JString("x")>>))}
      [] p = "azure" ->
           {JsonBody("{\"compute\":{\"vmId\":\"vm-1\"}}",
                     JObject(<<Member("compute", JObject(<<Member("vmId", JString("vm-1"))>>))>>)),
            JsonBody("{\"compute\":{\"vmId\":\"\"}}",
                     JObject(<<Member("compute", JObject(<<Member("vmId", JString(""))>>))>>)),
            JsonBody("{\"compute\":{\"vmId\":7}}",
                     JObject(<<Member("compute", JObject(<<Member("vmId", JNumber("7"))>>))>>)),
            JsonBody("{\"vmId\":\"vm-1\"}",
                     JObject(<<Member("vmId", JString("vm-1"))>>)),
            JsonBody("{\"compute\":{\"vmId\":\"vm-1\",\"vmId\":\"vm-2\"}}",
                     JObject(<<Member("compute", JObject(<<Member("vmId", JString("vm-1")), Member("vmId", JString("vm-2"))>>))>>)),
            JsonBody("{\"compute\":{\"vmId\":\"vm-1\"},\"compute\":{\"vmId\":\"vm-1\"}}",
                     JObject(<<Member("compute", JObject(<<Member("vmId", JString("vm-1"))>>)), Member("compute", JObject(<<Member("vmId", JString("vm-1"))>>))>>)),
            JsonBody("{\"compute\":null}",
                     JObject(<<Member("compute", JNull)>>)),
            JsonBody("{\"compute\":[\"vm-1\"]}",
                     JObject(<<Member("compute", JArray(<<JString("vm-1")>>))>>)),
            JsonBody("[{\"vmId\":\"vm-1\"}]",
                     JArray(<<JObject(<<Member("vmId", JString("vm-1"))>>)>>)),
            JsonBody("[[\"\"]]",
                     JArray(<<JArray(<<JString("")>>)>>))}
      [] p = "digitalocean" ->
           {JsonBody("{\"droplet_id\":123}",
                     JObject(<<Member("droplet_id", JNumber("123"))>>)),
            JsonBody("{\"droplet_id\":0}",
                     JObject(<<Member("droplet_id", JNumber("0"))>>)),
            JsonBody("{\"droplet_id\":-1}",
                     JObject(<<Member("droplet_id", JNumber("-1"))>>)),
            JsonBody("{\"droplet_id\":\"123\"}",
                     JObject(<<Member("droplet_id", JString("123"))>>)),
            JsonBody("{\"droplet_id\":1,\"droplet_id\":2}",
                     JObject(<<Member("droplet_id", JNumber("1")), Member("droplet_id", JNumber("2"))>>)),
            JsonBody("{\"droplet_id\":1.0}",
                     JObject(<<Member("droplet_id", JNumber("1.0"))>>)),
            JsonBody("{\"droplet_id\":1e2}",
                     JObject(<<Member("droplet_id", JNumber("1e2"))>>)),
            JsonBody("{\"droplet_id\":18446744073709551615}",
                     JObject(<<Member("droplet_id", JNumber("18446744073709551615"))>>)),
            JsonBody("{\"droplet_id\":18446744073709551616}",
                     JObject(<<Member("droplet_id", JNumber("18446744073709551616"))>>)),
            JsonBody("{\"droplet_id\":null}",
                     JObject(<<Member("droplet_id", JNull)>>)),
            JsonBody("{\"droplet_id\":true}",
                     JObject(<<Member("droplet_id", JBool(TRUE))>>)),
            JsonBody("{}",
                     JObject(<<>>)),
            JsonBody("[5]",
                     JArray(<<JNumber("5")>>)),
            JsonBody("[0]",
                     JArray(<<JNumber("0")>>)),
            JsonBody("[5.0]",
                     JArray(<<JNumber("5.0")>>))}
      [] p = "oci" ->
           {JsonBody("{\"oke-tm\":\"oke\"}",
                     JObject(<<Member("oke-tm", JString("oke"))>>)),
            JsonBody("{\"oke-tm\":\"a-oke-1\"}",
                     JObject(<<Member("oke-tm", JString("a-oke-1"))>>)),
            JsonBody("{\"oke-tm\":\"ok\"}",
                     JObject(<<Member("oke-tm", JString("ok"))>>)),
            JsonBody("{\"oke_tm\":\"oke\"}",
                     JObject(<<Member("oke_tm", JString("oke"))>>)),
            JsonBody("{\"oke-tm\":\"oke\",\"oke-tm\":\"oke\"}",
                     JObject(<<Member("oke-tm", JString("oke")), Member("oke-tm", JString("oke"))>>)),
            JsonBody("{\"oke-tm\":false}",
                     JObject(<<Member("oke-tm", JBool(FALSE))>>)),
            JsonBody("[\"oke\"]",
                     JArray(<<JString("oke")>>))}
      [] p = "vultr" ->
           {JsonBody("{\"instanceid\":\"abc\"}",
                     JObject(<<Member("instanceid", JString("abc"))>>)),
            JsonBody("{\"instanceid\":\"\"}",
                     JObject(<<Member("instanceid", JString(""))>>)),
            JsonBody("{\"instance_id\":\"abc\"}",
                     JObject(<<Member("instance_id", JString("abc"))>>)),
            JsonBody("{\"instanceid\":\"abc\",\"instanceid\":\"abc\"}",
                     JObject(<<Member("instanceid", JString("abc")), Member("instanceid", JString("abc"))>>)),
            JsonBody("{\"instanceid\":1}",
                     JObject(<<Member("instanceid", JNumber("1"))>>)),
            JsonBody("[\"abc\"]",
                     JArray(<<JString("abc")>>))}
      [] p = "akamai" ->
           {JsonBody("{\"id\":12345,\"host_uuid\":\"abc\"}",
                     JObject(<<Member("id", JNumber("12345")), Member("host_uuid", JString("abc"))>>)),
            JsonBody("{\"id\":0,\"host_uuid\":\"abc\"}",
                     JObject(<<Member("id", JNumber("0")), Member("host_uuid", JString("abc"))>>)),
            JsonBody("{\"id\":-1,\"host_uuid\":\"abc\"}",
                     JObject(<<Member("id", JNumber("-1")), Member("host_uuid", JString("abc"))>>)),
            JsonBody("{\"id\":12345,\"host_uuid\":\"\"}",
                     JObject(<<Member("id", JNumber("12345")), Member("host_uuid", JString(""))>>)),
            JsonBody("{\"id\":12345}",
                     JObject(<<Member("id", JNumber("12345"))>>)),
            JsonBody("{\"id\":1,\"host_uuid\":\"abc\",\"id\":1}",
                     JObject(<<Member("id", JNumber("1")), Member("host_uuid", JString("abc")), Member("id", JNumber("1"))>>)),
            JsonBody("{\"id\":1.0,\"host_uuid\":\"abc\"}",
                     JObject(<<Member("id", JNumber("1.0")), Member("host_uuid", JString("abc"))>>)),
            JsonBody("{\"id\":9223372036854775807,\"host_uuid\":\"abc\"}",
                     JObject(<<Member("id", JNumber("9223372036854775807")), Member("host_uuid", JString("abc"))>>)),
            JsonBody("{\"id\":9223372036854775808,\"host_uuid\":\"abc\"}",
                     JObject(<<Member("id", JNumber("9223372036854775808")), Member("host_uuid", JString("abc"))>>)),
            JsonBody("{\"id\":-9223372036854775808,\"host_uuid\":\"abc\"}",
                     JObject(<<Member("id", JNumber("-9223372036854775808")), Member("host_uuid", JString("abc"))>>)),
            JsonBody("{\"id\":-0,\"host_uuid\":\"abc\"}",
                     JObject(<<Member("id", JNumber("-0")), Member("host_uuid", JString("abc"))>>)),
            JsonBody("[1,\"u\"]",
                     JArray(<<JNumber("1"), JString("u")>>)),
            JsonBody("[\"u\",1]",
                     JArray(<<JString("u"), JNumber("1")>>))}
      [] OTHER -> {}
Bodies(p) ==
    {BrokenBody, TextBody(""), TextBody("ABC"), TextBody("ECS Virt")}
        \cup JsonBodies(p)
Responses(p) ==
    {NoResponse} \cup {Response(s, b) : s \in Statuses, b \in Bodies(p)}
\* the token texts: none, "123abc", one with a tab and one with a byte above
\* 127 (U+00E9), and texts with the control bytes 0, 10, 31 and 127
Tokens ==
    {<<>>, <<49, 50, 51, 97, 98, 99>>, <<97, 9, 98>>, <<97, 195, 169>>,
     <<0>>, <<49, 50, 51, 97, 98, 99, 10>>, <<97, 31>>, <<97, 127, 98>>}
TokenResponses ==
    {NoResponse}
        \cup {Response(s, b) :
                s \in Statuses,
                b \in {BrokenBody} \cup {TextBody(t) : t \in Tokens}}
\* Client::builder().timeout(timeout).build(), or the client reqwest::get
\* builds: built or not
ClientBuilds == BOOLEAN
\* identify is called for one provider module on some host; the orchestrator
\* does not move and the receiver stays alive
InitCheck ==
    /\ api \in {"async", "blocking"}
    /\ matches = {}
    /\ providers = Registered
    /\ guard = 0
    /\ pc = [r \in Runs |-> "idle"]
    /\ timeout = [r \in Runs |-> 0]
    /\ fired = [r \in Runs |-> FALSE]
    /\ rx = [r \in Runs |-> 0]
    /\ entries = [r \in Runs |-> <<>>]
    /\ spawned = [r \in Runs |-> 0]
    /\ chan = [c \in Runs |-> <<>>]
    /\ closed = [c \in Runs |-> FALSE]
    /\ senders = [c \in Runs |-> 0]
    /\ counter = [c \in Runs |-> 0]
    /\ complete = [c \in Runs |-> FALSE]
    /\ task = [r \in Runs |-> [p \in ProbeIds |-> "unspawned"]]
    /\ result = [r \in Runs |-> "none"]
    /\ by = [r \in Runs |-> "none"]
    /\ sent = [r \in Runs |-> <<>>]
    /\ ready = [r \in Runs |-> NotReady]
    /\ spResult = <<>>
    /\ \E p \in ProviderModules :
         probe = [id |-> p, state |-> "check", pos |-> 1, hit |-> FALSE,
                  env |-> [i \in 1..Len(Chain(p)) |-> <<>>],
                  ran |-> <<>>, res |-> <<>>, token |-> None,
                  published |-> FALSE]

\* check pos of the chain starts: it is entered in ran
Started(pr) == [pr EXCEPT !.ran = Append(@, Chain(pr.id)[pr.pos])]
\* check pos met x (a file, or a request and its outcome)
Met(pr, x) == [pr EXCEPT !.env[pr.pos] = Append(@, x)]
\* check pos sent a request and awaits send()
Sent(pr, req) == Met(pr, [req |-> req])
\* send() of the request check pos awaits gave r
Answered(pr, r) ==
    [pr EXCEPT !.env[pr.pos][Len(pr.env[pr.pos])] =
                   [req |-> pr.env[pr.pos][Len(pr.env[pr.pos])].req, resp |-> r]]
\* check pos returns: its answer is entered in res and the chain goes on
Returned(pr, positive) ==
    AfterCheck([pr EXCEPT !.res = Append(@, positive), !.token = None], positive)

\* a check of one vendor file
CheckFile ==
    /\ probe.state = "check"
    /\ Chain(probe.id)[probe.pos] \in SingleFileChecks
    /\ \E f \in FileStates(probe.id,
                           PathOf(probe.id, Chain(probe.id)[probe.pos])) :
         probe' = Returned(Met(Started(probe), f), check_vendor_file(api, probe.id, f))
    /\ UNCHANGED orchestration

\* check_vendor_files reads the product name file: a known name returns
\* true, anything else goes on to the chassis asset tag file
CheckProductNameFile ==
    /\ probe.state = "check"
    /\ Chain(probe.id)[probe.pos] = "check_vendor_files"
    /\ \E f \in FileStates(probe.id, PRODUCT_NAME_FILE) :
         probe' = IF any(f, PRODUCT_NAMES)
                  THEN Returned(Met(Started(probe), f), TRUE)
                  ELSE [Met(Started(probe), f) EXCEPT !.state = "chassis"]
    /\ UNCHANGED orchestration

\* check_vendor_files reads the chassis asset tag file and returns
CheckChassisAssetTagFile ==
    /\ probe.state = "chassis"
    /\ \E f \in FileStates(probe.id, CHASSIS_ASSET_TAG_FILE) :
         probe' = Returned(Met(probe, f), any(f, CHASSIS_ASSET_TAGS))
    /\ UNCHANGED orchestration

\* a metadata check with one request builds its client and sends the
\* request; without a client it returns false and nothing is sent
CheckMetadata ==
    /\ probe.state = "check"
    /\ Chain(probe.id)[probe.pos]
         \in {"check_metadata_server", "check_metadata_server_imdsv1"}
    /\ ~TokenCheck(probe.id, Chain(probe.id)[probe.pos])
    /\ \E built \in ClientBuilds :
         probe' = IF built
                  THEN [Sent(Started(probe), Request(METADATA_PATH[probe.id], None))
                          EXCEPT !.state = "await"]
                  ELSE Returned(Started(probe), FALSE)
    /\ UNCHANGED orchestration

\* a token check builds its client and sends its token request; without a
\* client it returns false and nothing is sent
CheckToken ==
    /\ probe.state = "check"
    /\ TokenCheck(probe.id, Chain(probe.id)[probe.pos])
    /\ \E built \in ClientBuilds :
         probe' = IF built
                  THEN [Sent(Started(probe),
                             Request(METADATA_TOKEN_PATH[probe.id], None))
                          EXCEPT !.state = "token"]
                  ELSE Returned(Started(probe), FALSE)
    /\ UNCHANGED orchestration

\* the token request is answered or fails: without a token the check
\* returns false, with one it goes on to the metadata request
CheckTokenResponse ==
    /\ probe.state = "token"
    /\ \E r \in TokenResponses :
         probe' = IF TokenRejected(r)
                  THEN Returned(Answered(probe, r), FALSE)
                  ELSE [Answered(probe, r) EXCEPT !.state = "metadata",
                                                 !.token = Some(Token(r))]
    /\ UNCHANGED orchestration

\* a token check sends its metadata request with the token in a header; a
\* token that is no header value makes send() fail with nothing sent
CheckTokenMetadata ==
    /\ probe.state = "metadata"
    /\ probe' = IF HeaderValue(probe.token[1]) = None
                THEN Returned(probe, FALSE)
                ELSE [Sent(probe, Request(METADATA_PATH[probe.id], probe.token))
                        EXCEPT !.state = "await"]
    /\ UNCHANGED orchestration

\* the metadata request is answered or fails and the check returns
CheckResponse ==
    /\ probe.state = "await"
    /\ \E r \in Responses(probe.id) :
         probe' = Returned(Answered(probe, r), check_metadata_server(probe.id, r))
    /\ UNCHANGED orchestration

\* the server does not answer: the timeout of the client ends the request
\* with an error and the check returns false; the request of a client
\* without a timeout (async OCI and Vultr) stays pending
CheckRequestTimeout ==
    /\ probe.state \in {"token", "await"}
    /\ RequestTimeout(api, probe.id, DEFAULT_DETECTION_TIMEOUT) # None
    /\ probe' = Returned(Answered(probe, TimedOut), FALSE)
    /\ UNCHANGED orchestration

\* tx.send(IDENTIFIER) after a positive check; identify returns
CheckPublish ==
    /\ probe.state = "send"
    /\ probe' = [probe EXCEPT !.state = "returned", !.published = TRUE]
    /\ UNCHANGED orchestration

NextCheck ==
    \/ CheckFile
    \/ CheckProductNameFile
    \/ CheckChassisAssetTagFile
    \/ CheckMetadata
    \/ CheckToken
    \/ CheckTokenResponse
    \/ CheckTokenMetadata
    \/ CheckResponse
    \/ CheckRequestTimeout
    \/ CheckPublish

CheckSpec == InitCheck /\ [][NextCheck]_vars
\* ============================================================== claims

\* C1: the value a run is about to return is Unknown or the identifier of a
\* probe of the run's own snapshot whose checks were positive and whose
\* message the run's channel accepted; a run takes at most one message out
\* of its channel, and takes one exactly when it returns an identifier.
C1_ReturnsPublishedMatch ==
    \A r \in Runs :
        /\ (Resolved(r) \/ pc[r] = "returned") =>
              result[r] \in {Unknown} \cup (matches \cap Range(entries[r]))
        /\ Resolved(r) =>
              /\ result[r] # Unknown =>
                    \E i \in 1..Len(sent[r]) : sent[r][i].id = result[r]
              /\ Len(sent[r]) - Len(chan[rx[r]])
                    = (IF result[r] = Unknown THEN 0 ELSE 1)

\* a run returns the matching probe while a non-matching probe also ran
C1_Witness ==
    \E r \in Runs, p \in ProbeIds :
        /\ pc[r] = "ret"
        /\ result[r] \in matches
        /\ p \notin matches
        /\ task[r][p] = "done"

\* C2: every detect call that was issued returns, given fair scheduling of
\* the orchestrator and of the timer only; no step of a probe task is needed.
C2_DetectTerminates ==
    \A r \in Runs : (pc[r] = "lock") ~> (pc[r] = "returned")

\* a run returns on the timeout while none of its probes has finished
C2_Witness ==
    \E r \in Runs :
        /\ pc[r] = "ret"
        /\ by[r] = "timeout"
        /\ \A p \in ProbeIds : task[r][p] = "identify"

\* C3: when no probe matches, a run returns Unknown, not an identifier and
\* not an error, and it resolves on the all-finished event or on the timeout.
C3_NoMatchUnknown ==
    \A r \in Runs :
        /\ (matches = {} /\ (Resolved(r) \/ pc[r] = "returned")) =>
              result[r] = Unknown
        /\ (matches = {} /\ Resolved(r)) => by[r] \in {"finished", "timeout"}

\* with no matching probe a run returned Unknown and the next one resolves
\* on the timeout with Unknown
C3_Witness ==
    /\ matches = {}
    /\ \E r, q \in Runs :
        /\ pc[r] = "returned" /\ result[r] = Unknown
        /\ pc[q] = "ret" /\ by[q] = "timeout" /\ result[q] = Unknown

\* C4: when exactly one probe matches and the channel accepted its message
\* before the run's timer elapsed, the run returns that probe's identifier.
C4_SingleMatchWins ==
    \A r \in Runs, p \in ProbeIds :
        ( /\ matches = {p}
          /\ Resolved(r)
          /\ \E i \in 1..Len(sent[r]) : sent[r][i] = [id |-> p, intime |-> TRUE] )
        => result[r] = p

\* C5: the identifier a run returns is the one whose message entered the
\* run's channel first; no later message of the run is returned.
C5_FirstArrivalWins ==
    \A r \in Runs :
        (Resolved(r) /\ result[r] # Unknown) =>
            /\ sent[r] # <<>>
            /\ result[r] = sent[r][1].id

\* two probes match and the run returns the one registered later, while the
\* one registered first is still waiting to publish
C5_Witness ==
    \E r \in Runs :
        /\ pc[r] = "ret"
        /\ Registered[1] \in matches
        /\ result[r] = Registered[2]
        /\ task[r][Registered[1]] = "send"

\* C6: a run that resolves while a message is in its channel returns that
\* message's identifier, whatever other events are ready at that instant.
C6_MessageTakesPrecedence ==
    \A r \in Runs :
        (Resolved(r) /\ ready[r].head # "none") =>
            /\ by[r] = "message"
            /\ result[r] = ready[r].head

\* C7 as stated: an async run that resolves when every probe task of it has
\* finished and none has published resolves to Unknown on the all-finished
\* event.
C7_AllFinishedResolves ==
    \A r \in Runs :
        (api = "async" /\ Resolved(r) /\ ready[r].done /\ sent[r] = <<>>) =>
            /\ result[r] = Unknown
            /\ by[r] = "finished"

\* C7 amended: once every probe task of a waiting async run has finished and
\* none has published, the signal is up, the run can take its next step
\* without the timer, the all-finished branch polled then resolves it, and it
\* resolves to Unknown: on the all-finished event unless its timer had
\* elapsed as well by then.
C7_ResolvesWithoutTimeout ==
    \A r \in Runs :
        api = "async" =>
            /\ (Waiting(r) /\ Finished(r) /\ sent[r] = <<>>) =>
                  /\ complete[rx[r]]
                  /\ ENABLED (Poll(r) \/ Resolve(r))
                  /\ Polled(r) = "notified" =>
                        Outcome(r) = [by |-> "finished", val |-> Unknown]
            /\ (Resolved(r) /\ ready[r].done /\ sent[r] = <<>>) =>
                  /\ result[r] = Unknown
                  /\ by[r] \in {"finished", "timeout"}
                  /\ ~ready[r].elapsed => by[r] = "finished"

\* an async run none of whose probes published resolved on all-finished
\* while its timer had not elapsed
C7_Witness ==
    \E r \in Runs :
        /\ api = "async"
        /\ pc[r] = "ret"
        /\ by[r] = "finished"
        /\ result[r] = Unknown
        /\ sent[r] = <<>>
        /\ ~ready[r].elapsed
        /\ ready[r].done

\* C8: the blocking detect resolves as the async detect does: at every poll
\* of a waiting blocking run, recv_timeout yields the event and the value the
\* async select yields for the same channel, timer and finished probe tasks.
C8_BlockingSameAsAsync ==
    \A r \in Runs :
        (api = "blocking" /\ Waiting(r)) =>
            LET b == RecvTimeout(chan[rx[r]], senders[rx[r]], Elapsed(r))
                a == Select(chan[rx[r]], senders[rx[r]], Finished(r), Elapsed(r))
            IN  b.by = a.by /\ b.val = a.val

\* C9: a run does not hold the registry mutex while it waits for results.
C9_GuardReleasedBeforeWaiting ==
    \A r \in Runs : Waiting(r) => guard # r

\* C10: runs are isolated: every message in a run's channel was sent by a
\* task of that run, the run's counter counts its own unfinished tasks and
\* its all-finished signal is raised only when all its own tasks finished,
\* whatever tasks abandoned by earlier runs do meanwhile.
C10_RunsIsolated ==
    \A r \in Runs :
        pc[r] \notin {"idle", "lock"} =>
            /\ \A i \in 1..Len(chan[rx[r]]) : chan[rx[r]][i].run = r
            /\ api = "async" =>
                  /\ counter[rx[r]] =
                        Cardinality({p \in ProbeIds : task[r][p] # "done"})
                  /\ complete[rx[r]] => Finished(r)

\* a later run resolved on a message of its own while a task abandoned by an
\* earlier run is still on its way to publish
C10_Witness ==
    \E r, q \in Runs, p \in ProbeIds :
        /\ q < r
        /\ pc[q] = "returned"
        /\ task[q][p] = "send"
        /\ pc[r] = "ret"
        /\ result[r] # Unknown

\* C11: a run called with a timeout of 0 returns Unknown, whether or not a
\* probe matches.
C11_ZeroTimeoutUnknown ==
    \A r \in Runs :
        (Resolved(r) /\ timeout[r] = 0) => result[r] = Unknown

\* C12: calls made in sequence in one environment return the same
\* ProviderId: with one matching probe at most (the spec leaves the winner
\* among several matching probes to the race) all calls that have returned
\* without running into their timeout returned the same value.
C12_SequentialCallsAgree ==
    \A r, q \in Runs :
        ( /\ Cardinality(matches) <= 1
          /\ pc[r] = "returned" /\ by[r] # "timeout"
          /\ pc[q] = "returned" /\ by[q] # "timeout" )
        => result[r] = result[q]

\* C17: a call made with None behaves as the call made with
\* Some(DEFAULT_DETECTION_TIMEOUT): each step in which detect(None) sets up
\* its run is the step detect(Some(5)) takes, in both APIs, and the run then
\* waits for 5 seconds.
C17_NoneIsDefault ==
    [][\A r \in Runs :
          /\ Acquire(r, None) <=> Acquire(r, Some(DEFAULT_DETECTION_TIMEOUT))
          /\ Acquire(r, None) => timeout'[r] = 5]_vars

\* a run called without a timeout waits with the default of 5 seconds while
\* none of its probes has finished
C17_Witness ==
    \E r \in Runs :
        /\ pc[r] = "wait"
        /\ timeout[r] = DEFAULT_DETECTION_TIMEOUT
        /\ timeout[r] > MaxTimeout
        /\ \A p \in ProbeIds : task[r][p] = "identify"

\* C20: a probe task that waits to publish into the full channel terminates:
\* it is released when the orchestrator takes a message or when the run
\* returns and drops the receiver; the run returns without waiting for it.
C20_PublisherReleased ==
    \A r \in Runs, p \in ProbeIds :
        (task[r][p] = "send") ~> (task[r][p] = "done")

\* the run has returned the other probe's identifier and dropped its receiver
\* while a matching probe still waits to publish
C20_Witness ==
    \E r \in Runs, p \in ProbeIds :
        /\ pc[r] = "returned"
        /\ closed[rx[r]]
        /\ result[r] \in matches \ {p}
        /\ task[r][p] = "send"

\* C14: once the registry lock is poisoned, every later detect call returns
\* the lock error, which is not Unknown, and launches no probe task, and
\* every later supported_providers call returns the lock error.
C14_LockFailureIsError ==
    /\ [](\A r, q \in Runs :
            (pc[r] \in {"unwind", "panicked"} /\ r < q /\ pc[q] \notin {"idle", "lock"})
            => /\ pc[q] = "returned"
               /\ result[q] = LockErr
               /\ result[q] # Unknown
               /\ \A p \in ProbeIds : task[q][p] = "unspawned")
    /\ [][(guard = Poisoned /\ spResult' # spResult)
             => spResult' = Err(LockErr)]_vars

\* a blocking run panicked holding the guard; the next detect call and a
\* supported_providers call both returned the lock error
C14_Witness ==
    \E r, q \in Runs :
        /\ pc[r] = "panicked"
        /\ pc[q] = "returned"
        /\ result[q] = LockErr
        /\ spResult = Err(LockErr)

\* C15: supported_providers returns the identifiers of the registered probes,
\* one entry per probe in registry order and without duplicates, repeated
\* calls return the same list, and the registry holds exactly the eight
\* names the tests check.
C15_SupportedProvidersExact ==
    /\ [](/\ spResult # <<>> =>
               /\ Len(spResult) = Len(providers)
               /\ \A i \in 1..Len(spResult) : spResult[i] = providers[i]
               /\ \A i, j \in 1..Len(spResult) :
                      spResult[i] = spResult[j] => i = j
               /\ Range(spResult) = ProbeIds
          /\ Len(PROVIDERS) = 8
          /\ Range(PROVIDERS) =
                {"alibaba", "aws", "azure", "digitalocean", "gcp", "oci",
                 "openstack", "vultr"}
          /\ Cardinality(Range(PROVIDERS)) = Len(PROVIDERS))
    /\ [][spResult # <<>> => spResult' = spResult]_vars

\* supported_providers returned the list after a detect run had returned
C15_Witness ==
    /\ spResult # <<>>
    /\ Len(spResult) = NumProbes
    /\ \E r \in Runs : pc[r] = "returned"

\* C16: every provider module of the crate, Akamai included, has its probe
\* in the registry, so that supported_providers lists it: a module missing
\* from the list returned for the modelled prefix of the registry is one of
\* the registry's remaining entries.
C16_AllProvidersRegistered ==
    spResult # <<>> =>
        \A n \in ProviderModules :
            \/ n \in Range(spResult)
            \/ \E i \in (Len(spResult) + 1)..Len(PROVIDERS) : PROVIDERS[i] = n

\* C13: a failure inside a probe is a read or a request without a match and
\* nothing more: the step that meets the failure publishes nothing and is
\* followed by the next file of the check, by the next check or by the
\* return of identify; the probe publishes only after a check that answered
\* true on a file or a request that really matched, and a probe none of
\* whose reads and requests matched publishes nothing and has run all its
\* checks; a call that is checking, publishing or returning can always take
\* its step, and a call that has ended was counted as finished by the async
\* closure.
C13_ProbeFailureSwallowed ==
    /\ [](probe.id # "none" =>
            LET matched(i) == "match" \in Range(probe.env[i]) IN
            /\ (probe.state = "send" \/ probe.published)
                  => /\ probe.res[Len(probe.res)]
                     /\ Len(probe.res) = probe.pos
                     /\ matched(probe.pos)
            /\ (probe.state \in {"returned", "finished"}
                  /\ \A i \in 1..Len(probe.env) : ~matched(i))
                  => ~probe.published /\ probe.pos = Len(probe.env)
            /\ (probe.state = "finished" /\ api = "async") => probe.counted
            /\ (probe.state \in {"check", "chassis", "send", "returned"})
                  => ENABLED NextProbe)
    /\ [][LET \* what the read or the request of the step meets
              meets == probe.env[probe.pos][IF probe.state = "chassis"
                                            THEN 2 ELSE 1]
          IN (probe.id # "none"
              /\ meets \in Failures(api, probe.id, probe.timeout)
              /\ \/ probe.state \in {"request", "chassis"}
                 \/ /\ probe.state = "check"
                    /\ meets \in {"unreadable", "client_error"}
              /\ probe' # probe)
             => /\ probe'.state \in {"check", "chassis", "returned"}
                /\ probe'.published = probe.published
                /\ probe'.hit = probe.hit
                /\ probe'.state = "check" => probe'.pos = probe.pos + 1
                /\ probe'.state = "chassis"
                      => probe.state = "check" /\ probe'.pos = probe.pos]_vars

\* every read and every request of a call failed, one request on a server
\* that did not answer before the client's timeout, and the call ended
\* counted, with nothing published
C13_Witness ==
    /\ probe.id # "none"
    /\ api = "async"
    /\ probe.state = "finished"
    /\ probe.counted
    /\ ~probe.published
    /\ probe.issued > 0
    /\ \A i \in 1..Len(probe.env) :
          Range(probe.env[i]) \subseteq Failures(api, probe.id, probe.timeout)
    /\ \E i \in 1..Len(probe.env) :
          Checks(probe.id)[i] = "net" /\ probe.env[i] = <<"silent">>

\* C18: a positive local check ends the identify call without any network
\* request: a call that has issued a request found every local check of its
\* probe negative before.
C18_LocalMatchSkipsNetwork ==
    probe.id # "none" =>
        /\ (\E i \in 1..probe.pos :
               /\ Checks(probe.id)[i] \in {"file", "files"}
               /\ "match" \in Range(probe.env[i]))
              => probe.issued = 0
        /\ probe.issued > 0 =>
              \A i \in 1..Len(probe.env) :
                  /\ Checks(probe.id)[i] = "file"
                        => i < probe.pos /\ ~CheckVendorFile(probe.env[i][1])
                  /\ Checks(probe.id)[i] = "files"
                        => i < probe.pos /\ ~CheckVendorFiles(probe.env[i])

\* a call ended after a matching vendor file with no request issued, on a
\* host whose metadata server would have matched as well
C18_Witness ==
    /\ probe.id # "none"
    /\ probe.state = "finished"
    /\ probe.published
    /\ probe.issued = 0
    /\ Checks(probe.id)[probe.pos] \in {"file", "files"}
    /\ \E i \in 1..Len(probe.env) :
          Checks(probe.id)[i] = "net" /\ probe.env[i] = <<"match">>

\* C19: every network request a probe has pending is bounded by the timeout
\* of the run that launched the probe.
C19_RequestsBounded ==
    (probe.id # "none" /\ probe.state = "request")
        => RequestTimeout(api, probe.id, probe.timeout) = Some(probe.run)

\* C21: the tasks still running when detect returns are left as they are and
\* go on; after the return nothing they do is observable: the value returned
\* stays, the run stays returned and the run's channel accepts no message.
C21_AbandonedNotCancelled ==
    /\ [][\A r \in Runs : Return(r) => task' = task]_vars
    /\ [][\A r \in Runs :
            pc[r] = "returned" =>
                /\ pc'[r] = "returned"
                /\ result'[r] = result[r]
                /\ chan'[rx[r]] = <<>>
                /\ \A p \in ProbeIds :
                      (task[r][p] # "done" /\ task'[r][p] # task[r][p])
                          => task'[r][p] = "done"]_vars

\* a run returned Unknown on its timeout and a matching probe, abandoned
\* before it had published, has finished since
C21_Witness ==
    \E r \in Runs, p \in ProbeIds :
        /\ pc[r] = "returned"
        /\ by[r] = "timeout"
        /\ result[r] = Unknown
        /\ p \in matches
        /\ task[r][p] = "done"
        /\ chan[rx[r]] = <<>>

\* C22: no call changes the registry, a run's snapshot is the registry, and
\* the tasks a run has launched once it waits are those of the snapshot.
C22_RegistryUnchanged ==
    /\ providers = Registered
    /\ \A r \in Runs :
          /\ pc[r] \notin {"idle", "lock"} => entries[r] = providers
          /\ (Waiting(r) \/ Resolved(r) \/ pc[r] = "returned") =>
                {p \in ProbeIds : task[r][p] # "unspawned"} = Range(providers)

\* two detect runs returned, supported_providers was called, and the registry
\* is as initialised
C22_Witness ==
    /\ \A r \in Runs : pc[r] = "returned"
    /\ spResult # <<>>
    /\ providers = SubSeq(PROVIDERS, 1, NumProbes)

\* C23: in the async detect the counter is the number of the run's tasks that
\* have not finished, it never is negative and only goes down by one; the
\* signal is raised only in the step that takes the counter from 1 to 0, and
\* it is up only while every task has finished.
C23_CounterCountsUnfinished ==
    /\ [](\A r \in Runs :
            (api = "async" /\ pc[r] \notin {"idle", "lock"}) =>
                /\ counter[rx[r]] >= 0
                /\ counter[rx[r]] + Cardinality({p \in ProbeIds : task[r][p] = "done"})
                      = Len(entries[r])
                /\ complete[rx[r]] => counter[rx[r]] = 0)
    /\ [][\A r \in Runs :
            (api = "async" /\ pc[r] \notin {"idle", "lock"}) =>
                /\ counter'[rx[r]] \in {counter[rx[r]], counter[rx[r]] - 1}
                /\ (~complete[rx[r]] /\ complete'[rx[r]]) =>
                      (counter[rx[r]] = 1 /\ counter'[rx[r]] = 0)]_vars

\* the last task of an async run has raised the signal: the counter is 0 and
\* the orchestrator, which is waiting, has not taken the signal yet
C23_Witness ==
    \E r \in Runs :
        /\ api = "async"
        /\ pc[r] = "wait"
        /\ complete[rx[r]]
        /\ counter[rx[r]] = 0
        /\ Len(entries[r]) = NumProbes

\* C24: in the async detect a task has published before it is counted as
\* finished: while the run has not returned, every matching probe whose task
\* is done has its message accepted by the run's channel; once the signal is
\* up every message of the run is in the channel or was taken by the run;
\* and a run that resolves on the all-finished signal had no publishing probe.
C24_PublishBeforeDecrement ==
    \A r \in Runs :
        (api = "async" /\ Live(r)) =>
            /\ \A p \in ProbeIds :
                  (p \in matches /\ task[r][p] = "done") =>
                      \E i \in 1..Len(sent[r]) : sent[r][i].id = p
            /\ (complete[rx[r]] \/ (Resolved(r) /\ by[r] = "finished")) =>
                  /\ Len(sent[r]) = Cardinality(matches \cap Range(entries[r]))
                  /\ Len(chan[rx[r]]) =
                        Len(sent[r]) - (IF Resolved(r) /\ by[r] = "message"
                                        THEN 1 ELSE 0)
            /\ (Resolved(r) /\ by[r] = "finished") =>
                  matches \cap Range(entries[r]) = {}

\* C25: the signal is not lost: whenever the tasks of an async run that has
\* not resolved have all finished, whether or not the run was waiting on the
\* signal by then, the signal is up, and the run that polls its all-finished
\* branch next resolves there to Unknown, it does not go on to wait.
C25_SignalNotLost ==
    [][\A r \in Runs :
          (api = "async" /\ Waiting(r) /\ Finished(r)) =>
              /\ complete[rx[r]]
              /\ (pc[r] = "notified" /\ pc'[r] # pc[r]) =>
                    /\ pc'[r] = "ret"
                    /\ by'[r] = "finished"
                    /\ result'[r] = Unknown]_vars

\* the last task raised the signal before the orchestrator, whose timer has
\* not elapsed, polls its all-finished branch for the first time
C25_Witness ==
    \E r \in Runs :
        /\ api = "async"
        /\ pc[r] = "notified"
        /\ Finished(r)
        /\ complete[rx[r]]
        /\ ~Elapsed(r)

\* C26: a run's channel holds at most one message; a task writes to it at
\* most once and writes its own identifier; the orchestrator takes nothing
\* out before it resolves and at most one message when it does.
C26_SingleSlotSingleUse ==
    \A r \in Runs :
        Live(r) =>
            /\ Len(chan[rx[r]]) <= 1
            /\ \A i, j \in 1..Len(sent[r]) : sent[r][i].id = sent[r][j].id => i = j
            /\ \A i \in 1..Len(sent[r]) :
                  sent[r][i].id \in matches /\ task[r][sent[r][i].id] = "done"
            /\ \A i \in 1..Len(chan[rx[r]]) :
                  \E j \in 1..Len(sent[r]) : sent[r][j].id = chan[rx[r]][i].id
            /\ Len(sent[r]) - Len(chan[rx[r]]) \in {0, 1}
            /\ ~Resolved(r) => Len(sent[r]) = Len(chan[rx[r]])

\* both probes match: one message is in the channel and the other probe
\* waits for the slot
C26_Witness ==
    \E r \in Runs, p, q \in ProbeIds :
        /\ pc[r] = "wait"
        /\ Len(chan[rx[r]]) = 1
        /\ chan[rx[r]][1].id = p
        /\ q # p
        /\ task[r][q] = "send"

\* C27: a run launches one task per entry of its snapshot and all of them
\* before it polls for a result; a task runs identify once: it never goes
\* back to identify and a finished task stays finished.
C27_OneTaskPerProbe ==
    /\ [](\A r \in Runs :
            /\ Live(r) =>
                  /\ Cardinality({p \in ProbeIds : task[r][p] # "unspawned"})
                        = spawned[r]
                  /\ \A i \in 1..Len(entries[r]) :
                        (task[r][entries[r][i]] # "unspawned") <=> (i <= spawned[r])
            /\ (Waiting(r) \/ Resolved(r)) => spawned[r] = Len(entries[r]))
    /\ [][\A r \in Runs, p \in ProbeIds :
            /\ task[r][p] \in {"send", "done"} => task'[r][p] # "identify"
            /\ task[r][p] = "done" => task'[r][p] = "done"
            /\ task[r][p] # "unspawned" => task'[r][p] # "unspawned"]_vars

\* a run polls with every task of its snapshot launched, one of them already
\* finished and another still in identify
C27_Witness ==
    \E r \in Runs, p, q \in ProbeIds :
        /\ pc[r] = "select"
        /\ spawned[r] = NumProbes
        /\ task[r][p] = "done"
        /\ task[r][q] = "identify"

\* C28: from the set-up of its channel until it returns the orchestrator is
\* one of the channel's live senders, so no poll finds the channel closed or
\* disconnected: the blocking detect does not return its receive error and
\* the receive branch of the async detect yields an identifier.
C28_ChannelNeverClosedInRun ==
    \A r \in Runs :
        /\ Live(r) =>
              /\ senders[rx[r]] >= 1
              /\ senders[rx[r]] =
                    1 + Cardinality({p \in ProbeIds : task[r][p] \in {"identify", "send"}})
        /\ Waiting(r) => Outcome(r).by \notin {"closed", "disconnected"}
        /\ (Resolved(r) \/ pc[r] = "returned") =>
              /\ by[r] \notin {"closed", "disconnected"}
              /\ result[r] # "error"
              /\ by[r] = "message" => result[r] # Unknown

\* every thread of a blocking run has ended without a message; the receiver
\* is still connected through the orchestrator's sender and the run waits
C28_Witness ==
    \E r \in Runs :
        /\ api = "blocking"
        /\ pc[r] = "wait"
        /\ ~Elapsed(r)
        /\ Finished(r)
        /\ chan[rx[r]] = <<>>
        /\ senders[rx[r]] = 1

\* C29: no probe has priority: whenever a run polls or waits with an empty
\* channel, each matching probe still in identify can be the next to publish,
\* and the run then resolves on that probe's message.
C29_RaceNotPriority ==
    \A r \in Runs, p \in ProbeIds :
        ( /\ Waiting(r)
          /\ p \in matches
          /\ task[r][p] = "identify"
          /\ chan[rx[r]] = <<>> )
        => ENABLED ( /\ Identify(r, p)
                     /\ chan'[rx[r]] = <<[id |-> p, run |-> r]>> )

\* with both probes matching, one run returned the probe registered second
\* and a later run the probe registered first
C29_Witness ==
    \E r, q \in Runs :
        /\ r < q
        /\ {Registered[1], Registered[2]} \subseteq matches
        /\ pc[r] = "returned" /\ result[r] = Registered[2]
        /\ pc[q] = "returned" /\ result[q] = Registered[1]

\* C30: an identify call that has returned tried to publish exactly when
\* one of its checks answered true, and a check answers true exactly when a
\* file it read or the request it made matched (a failed read or request is
\* no match, and check_vendor_files answers true on its second file after a
\* first that failed); what the channel accepted is the identifier of the
\* probe's own module, and a call whose checks were all negative or failed
\* has published nothing after running every check.
C30_PublishesIffPositive ==
    (probe.id # "none" /\ probe.state \in {"returned", "finished"}) =>
        LET positive(i) == "match" \in Range(probe.env[i])
        IN  /\ \A i \in 1..Len(probe.res) : probe.res[i] = positive(i)
            /\ probe.hit <=> (\E i \in 1..Len(probe.res) : probe.res[i])
            /\ probe.hit => Len(probe.res) = probe.pos
            /\ ~probe.hit => Len(probe.res) = Len(probe.env)
            /\ probe.published <=> (probe.hit /\ probe.recv = "open")
            /\ probe.published => probe.msg = probe.id
            /\ ~probe.published => probe.msg = "none"

\* a call published its identifier after a read that failed:
\* check_vendor_files answered true on its chassis asset tag file after a
\* product name file it could not read
C30_Witness ==
    /\ probe.id # "none"
    /\ probe.state = "finished"
    /\ probe.published
    /\ probe.msg = probe.id
    /\ Checks(probe.id)[probe.pos] = "files"
    /\ probe.env[probe.pos][1] \in Failures(api, probe.id, probe.timeout)
    /\ probe.env[probe.pos][2] = "match"
    /\ probe.res = <<TRUE>>

\* C31: a metadata response with a status other than 200 makes the network
\* check that received it answer "not a match", for every probe and whatever
\* the body holds. (Violated: only the GCP and OpenStack checks look at the
\* status, and they accept every 2xx; the others read the body of any
\* response.)
C31_NonOkStatusNegative ==
    \A i \in 1..Len(probe.res) :
        \A k \in 1..Len(probe.env[i]) :
            LET x == probe.env[i][k] IN
            (/\ "req" \in DOMAIN x
             /\ x.req.path = METADATA_PATH[probe.id]
             /\ x.resp.ok
             /\ x.resp.status # 200) => ~probe.res[i]

\* C32: the AWS probe runs its checks in the order product version file,
\* BIOS vendor file, IMDSv2, IMDSv1; a check starts only when all earlier
\* ones answered false; after every negative IMDSv2 answer (request error,
\* empty token, bad payload) IMDSv1 is next; the first positive answer ends
\* the chain and AWS is published, and nothing is published without one.
C32_AwsCheckOrder ==
    probe.id = "aws" =>
        /\ probe.ran =
             SubSeq(<<"check_product_version_file", "check_bios_vendor_file",
                      "check_metadata_server_imdsv2",
                      "check_metadata_server_imdsv1">>, 1, Len(probe.ran))
        /\ \A i \in 1..Len(probe.ran) :
             \A j \in 1..(i - 1) : j <= Len(probe.res) /\ ~probe.res[j]
        /\ (Len(probe.res) >= 3 /\ ~probe.res[3]) =>
             /\ probe.pos = 4
             /\ \/ probe.state = "check" /\ ENABLED CheckMetadata
                \/ Len(probe.ran) = 4
        /\ (\E i \in 1..Len(probe.res) : probe.res[i]) =>
             /\ probe.res[Len(probe.res)]
             /\ Len(probe.ran) = Len(probe.res)
             /\ probe.state \in {"send", "returned"}
             /\ probe.state = "returned" => probe.published
        /\ probe.published => \E i \in 1..Len(probe.res) : probe.res[i]
        /\ (probe.state = "returned" /\ ~probe.published) => Len(probe.res) = 4

\* AWS was published by IMDSv1 after both files were negative and IMDSv2 got
\* a token and then a payload that is not the expected JSON
C32_Witness ==
    /\ probe.id = "aws"
    /\ probe.published
    /\ probe.res = <<FALSE, FALSE, FALSE, TRUE>>
    /\ Len(probe.env[3]) = 2
    /\ probe.env[3][2].resp.ok
    /\ probe.env[3][2].resp.body.json = None

\* C33: in the token checks (AWS IMDSv2, Akamai) the first request is the
\* token request; the metadata request is sent only after a token request
\* that was answered with a readable, non-empty text (one a header can
\* carry), and it carries that text as its token; when the token request fails or the token is empty the
\* check returns false with the token request as its only request, and a
\* check that sent no token request returns false with no request at all; a
\* check that returns true has sent exactly the token request and then the
\* metadata request. (Answered means that send() gave a response: the status
\* of the token response is not read, see C31.)
C33_TokenBeforeMetadata ==
    \A i \in 1..Len(probe.ran) :
        TokenCheck(probe.id, probe.ran[i]) =>
            LET log == probe.env[i]
                answered(x) == /\ "resp" \in DOMAIN x
                               /\ x.resp.ok
                               /\ x.resp.body.text # None
                               /\ Len(x.resp.body.text[1]) > 0
            IN  /\ Len(log) \in {0, 1, 2}
                /\ Len(log) >= 1 =>
                     log[1].req = [path |-> METADATA_TOKEN_PATH[probe.id],
                                   token |-> None]
                /\ Len(log) = 2 =>
                     /\ answered(log[1])
                     /\ HeaderValue(log[1].resp.body.text[1]) # None
                     /\ log[2].req = [path |-> METADATA_PATH[probe.id],
                                      token |-> log[1].resp.body.text]
                /\ (i <= Len(probe.res) /\ Len(log) = 0) => ~probe.res[i]
                /\ (i <= Len(probe.res) /\ Len(log) >= 1 /\ ~answered(log[1])) =>
                     Len(log) = 1 /\ ~probe.res[i]
                /\ (i <= Len(probe.res) /\ probe.res[i]) =>
                     Len(log) = 2 /\ answered(log[2])

\* the Akamai check returned true after one token request answered "123abc"
\* and one metadata request carrying "123abc"
C33_Witness ==
    /\ probe.id = "akamai"
    /\ probe.res = <<TRUE>>
    /\ Len(probe.env[1]) = 2
    /\ probe.env[1][1].resp.body.text = Some(<<49, 50, 51, 97, 98, 99>>)
    /\ probe.env[1][2].req.token = Some(<<49, 50, 51, 97, 98, 99>>)

\* C34: a JSON-based metadata check (AWS IMDSv1 and IMDSv2, Azure,
\* DigitalOcean, OCI, Vultr, Akamai) that sent its metadata request returns
\* true exactly when the request was answered with JSON that parses into the
\* provider's struct (an object with the fields as members, or an array with
\* the fields in the order of declaration) and whose fields satisfy the
\* provider's predicate: AWS imageId starts with "ami-" and instanceId with
\* "i-"; Azure compute.vmId is not empty; DigitalOcean droplet_id > 0; OCI
\* oke-tm contains "oke"; Vultr instanceid is not empty; Akamai id > 0 and
\* host_uuid is not empty. It returns false for a response that does not
\* parse: no JSON, a field missing, written twice or of another type, a
\* number that is no integer of the field's width.
C34_JsonCheckIffPredicate ==
    \A i \in 1..Len(probe.res) :
        (/\ probe.id \in {"aws", "azure", "digitalocean", "oci", "vultr", "akamai"}
         /\ probe.ran[i] \in {"check_metadata_server",
                              "check_metadata_server_imdsv1",
                              "check_metadata_server_imdsv2"}
         /\ Len(probe.env[i]) > 0
         /\ probe.env[i][Len(probe.env[i])].req.path = METADATA_PATH[probe.id]) =>
            LET r == probe.env[i][Len(probe.env[i])].resp
                v == r.body.json[1]
                string(f) == IF IsString(f) THEN f[1].v ELSE ""
                unsigned(f) == IF IsNumber(f) THEN usize(f[1].v) ELSE None
                signed(f) == IF IsNumber(f) THEN isize(f[1].v) ELSE None
                positive(n) == n # None /\ ~n[1].neg /\ n[1].mag # "0"
                compute == Field(v, "compute", 1, 1)
                expected ==
                    CASE probe.id = "aws" ->
                           /\ StartsWith(string(Field(v, "imageId", 1, 2)), "ami-")
                           /\ StartsWith(string(Field(v, "instanceId", 2, 2)), "i-")
                      [] probe.id = "azure" ->
                           /\ compute # None
                           /\ string(Field(compute[1], "vmId", 1, 1)) # ""
                      [] probe.id = "digitalocean" ->
                           positive(unsigned(Field(v, "droplet_id", 1, 1)))
                      [] probe.id = "oci" ->
                           Contains(string(Field(v, "oke-tm", 1, 1)), "oke")
                      [] probe.id = "vultr" ->
                           string(Field(v, "instanceid", 1, 1)) # ""
                      [] probe.id = "akamai" ->
                           /\ positive(signed(Field(v, "id", 1, 2)))
                           /\ string(Field(v, "host_uuid", 2, 2)) # ""
            IN  /\ probe.res[i] = (r.ok /\ r.body.json # None /\ expected)
                /\ probe.res[i] =>
                      MetadataResponse(probe.id, v) # None

\* the DigitalOcean metadata check returned true for {"droplet_id":123}
C34_Witness ==
    /\ probe.id = "digitalocean"
    /\ probe.res = <<FALSE, TRUE>>
    /\ probe.env[2][1].resp.ok
    /\ probe.env[2][1].resp.body.text = Some("{\"droplet_id\":123}")

\* C35: a check of one vendor file returns true exactly when its path is a
\* file that can be read and whose content contains the provider's string
\* (for AWS: whose lower-cased content contains "amazon"); for a missing
\* path, an unreadable file, an empty file and a file without the string it
\* returns false, and it always returns a boolean, never an error.
\* (Violated: the blocking GCP check asks whether the path exists, not
\* whether it is a regular file, and returns true for a FIFO or a device
\* whose read gives "Google".)
C35_VendorFileIffMarker ==
    \A i \in 1..Len(probe.res) :
        probe.ran[i] \in SingleFileChecks =>
            LET f == probe.env[i][1]
                content == IF probe.id = "aws" THEN ToLowercase(f.content)
                           ELSE f.content
            IN  /\ Len(probe.env[i]) = 1
                /\ probe.res[i] \in BOOLEAN
                /\ probe.res[i] =
                     (f.kind = "file" /\ Contains(content, VendorString[probe.id]))
                /\ (f.kind \in {"absent", "unreadable"} \/ f.content = "") =>
                     ~probe.res[i]

\* C36: the OpenStack file check reads the product name file first and the
\* chassis asset tag file second, and returns true exactly when one of the
\* files it read holds one of that file's known strings; a product name file
\* that is missing, unreadable or without a known name is always followed by
\* the chassis asset tag file, and the check returns false only after both
\* files failed to match.
C36_OpenStackEitherFile ==
    \A i \in 1..Len(probe.ran) :
        probe.ran[i] = "check_vendor_files" =>
            LET files == probe.env[i]
                holds(f, names) ==
                    /\ f.kind = "file"
                    /\ \E n \in Range(names) : Contains(f.content, n)
                first == holds(files[1], PRODUCT_NAMES)
                second == Len(files) = 2 /\ holds(files[2], CHASSIS_ASSET_TAGS)
            IN  /\ Len(files) \in {1, 2}
                /\ files[1].path = PRODUCT_NAME_FILE
                /\ Len(files) = 2 =>
                     files[2].path = CHASSIS_ASSET_TAG_FILE /\ ~first
                /\ (~first /\ Len(files) = 1) =>
                     /\ i > Len(probe.res)
                     /\ probe.state = "chassis"
                     /\ ENABLED CheckChassisAssetTagFile
                /\ i <= Len(probe.res) =>
                     /\ probe.res[i] = (first \/ second)
                     /\ ~probe.res[i] => Len(files) = 2

\* the check returned true on the chassis asset tag "SAP CCloud VM" after an
\* unreadable product name file
C36_Witness ==
    /\ probe.id = "openstack"
    /\ probe.res = <<TRUE>>
    /\ probe.env[1] = <<File(PRODUCT_NAME_FILE, "unreadable", ""),
                        File(CHASSIS_ASSET_TAG_FILE, "file", "SAP CCloud VM")>>
====
